---- MODULE Spec2Model ----
(***************************************************************************)
(* Model of the build pipeline of elskow/chef-infra:                       *)
(* internal/pipeline (Pipeline.StartBuild, executeBuild, CancelBuild,      *)
(* GetBuild) together with the types.Build record it mutates.              *)
(*                                                                         *)
(* Every StartBuild that passes validation launches one goroutine running  *)
(* executeBuild.  That goroutine writes the fields of the Build record     *)
(* without holding Pipeline.mu (except for the CancelFunc store), while    *)
(* CancelBuild reads and writes the same fields under the lock, so the     *)
(* statements of the two are modelled as separate steps that interleave.   *)
(*                                                                         *)
(* The directories and the artifact file a build leaves on disk, the       *)
(* MetricsCollector of the pipeline, the contexts handed to the builder    *)
(* and the deployer, and the cluster deployer (deployer.K8sDeployer) with  *)
(* the cluster it writes to are part of the state as well, and so are the  *)
(* static deployer (deployer.StaticDeployer) with its static root, the     *)
(* NodeJS validator (validator.NodeJSValidator), the login service         *)
(* (auth.Service) with its repository and the container-based builder      *)
(* (builder.NodeJSBuilder) with the requests it sends to the container     *)
(* engine: each has a specification of its own, whose steps leave the      *)
(* state of the others unchanged.                                          *)
(***************************************************************************)
EXTENDS Integers, FiniteSets, Sequences, TLC

\* Build records (the *types.Build pointers callers hand to StartBuild).
Builds == {"r1", "r2"}

\* Values callers put in Build.ID.
BuildIDs == {"b1", "b2"}

\* Values callers put in Build.Framework ("React" stands for any tag that
\* Factory.CreateBuilder does not list, a listed tag in another case
\* included).
Frameworks == {"react", "React"}

\* Values of Build.Status a caller submits: the tests submit "pending"
\* (createTestBuild) and the zero value "" (TestPipelineIntegration).
SubmittedStatuses == {"", "pending"}

\* Number of CancelBuild calls callers make in one behaviour.
MaxCancels == 2

\* The revisions the cluster makes of the workloads in one behaviour.
MaxRollouts == 2

\* The Deploy calls made on the static deployer in one behaviour.
MaxStaticDeploys == 3

BuildStatusPending == "pending"
BuildStatusBuilding == "building"
BuildStatusSuccess == "success"
BuildStatusFailed == "failed"
BuildStatusCancelled == "cancelled"

TerminalStatuses == {BuildStatusSuccess, BuildStatusFailed, BuildStatusCancelled}

\* The zero value of types.Build, for a record no caller has filled in yet.
Build ==
  [ID |-> "", Framework |-> "", Status |-> "", ErrorMessage |-> "",
   ArtifactPath |-> "", ImageID |-> "", CompleteTime |-> "nil",
   CancelFunc |-> "nil"]

\* What a Builder returns on success (mockBuilder.Build / NodeJSBuilder.Build).
BuildResult == [ArtifactPath |-> "artifact.tar.gz", ImageID |-> "image"]

\* The projects builds belong to (Build.ProjectID) and the image tags a
\* builder produces for them (Build.ImageID).
Projects == {"p1", "p2"}
Images == {"img1", "img2"}

\* The directories builder.NewBuildContext lays out for a build id under
\* PipelineConfig.BuildDir, and the artifact file NodeJSBuilder.Build writes:
\* Options.WorkDir is the build directory, and the artifact goes to
\* WorkDir/artifacts/<id>.tar.gz.
BuildDir(id) == <<"builds", id>>
ArtifactDir(id) == <<"artifacts", id>>
CacheDir(id) == <<"cache", id>>
ArtifactFile(id) == <<"builds", id, "artifacts", id>>

\* The paths os.RemoveAll(dir) removes: dir and everything below it.
RemoveAll(dir, paths) ==
  {p \in paths : Len(p) < Len(dir) \/ SubSeq(p, 1, Len(dir)) # dir}

NoBuild == "none"
NoCall == [op |-> "none", id |-> "", build |-> NoBuild, err |-> ""]

VARIABLES
  builds,    \* Pipeline.builds: Build.ID -> Build record (NoBuild: absent)
  build,     \* the fields of every Build record
  task,      \* the goroutine of StartBuild running executeBuild, per record
  ctxDone,   \* per record: the derived buildCtx of executeBuild is cancelled
  calls,     \* per record: how often each collaborator was invoked for it
  results,   \* per record: what each collaborator call returned
  cancel,    \* the CancelBuild call that holds Pipeline.mu, if any
  ret,       \* the last value returned to a caller
  ncancel,   \* CancelBuild calls made so far
  disk,      \* the directories and files that exist under the build root
  metrics,   \* MetricsCollector.metrics: Build.ID -> BuildMetrics
  now,       \* the clock time.Now() reads
  ctxCancelled, \* the context callers pass to StartBuild is cancelled
  timedOut,  \* per record: the timer of the timeout context has fired
  cluster,   \* the cluster: deployments, services, ingresses by name
  deploys,   \* the K8sDeployer call of each caller: Deploy or Rollback
  www,       \* the static root: the target directories and the backups
  sdep,      \* the last StaticDeployer call and what it returned
  ndeploy,   \* StaticDeployer.Deploy calls made so far
  vcheck,    \* the last NodeJSValidator.ValidateBuildConfig call and its result
  accounts,  \* the auth repository: the users table
  login,     \* the last auth.Service call and what it returned
  nodejs     \* the NodeJSBuilder.Build call and its requests to the engine

\* The state of the pipeline and of the build root.
pipeline ==
  <<builds, build, task, ctxDone, calls, results, cancel, ret, ncancel, disk>>

\* The state of the components that run apart from the pipeline and the
\* cluster deployer.
env == <<metrics, now, ctxCancelled, timedOut>>
k8s == <<cluster, deploys>>
static == <<www, sdep, ndeploy>>
auth == <<accounts, login>>
apart == <<www, sdep, ndeploy, vcheck, accounts, login, nodejs>>

\* What no step of StartBuild, executeBuild, CancelBuild or GetBuild touches.
outside == <<metrics, now, ctxCancelled, timedOut, cluster, deploys, apart>>

vars ==
  <<builds, build, task, ctxDone, calls, results, cancel, ret, ncancel, disk,
    metrics, now, ctxCancelled, timedOut, cluster, deploys, www, sdep,
    ndeploy, vcheck, accounts, login, nodejs>>

NoTask == [pc |-> "new", err |-> "", buildContext |-> FALSE, builder |-> FALSE]
NoCalls ==
  [ValidateBuildConfig |-> 0, Build |-> 0, ValidateArtifact |-> 0,
   Deploy |-> 0, Rollback |-> 0, BuilderCleanup |-> 0, ContextCleanup |-> 0,
   CancelFunc |-> 0]
NoResults ==
  [ValidateBuildConfig |-> "none", Build |-> "none", ValidateArtifact |-> "none",
   Deploy |-> "none", Rollback |-> "none", CancelBuild |-> "none"]
NoCancel == [pc |-> "idle", id |-> "", build |-> NoBuild]

\* MetricsCollector.metrics without an entry for a build id.
NoMetrics == [Status |-> "none"]

\* A cluster name without a resource, and a caller with no Deploy in flight.
NoResource == [name |-> "none"]
NoDeploy ==
  [op |-> "none", pc |-> "idle", stage |-> 1, project |-> "", image |-> "",
   err |-> "", overlapped |-> FALSE, updated |-> {}, before |-> NoResource,
   deployment |-> NoResource, listed |-> <<>>]
Callers == {"c1", "c2"}

\* File names and file contents; a name without a file.
FileNames == {"index.html", "app.js"}
Contents == {"v1", "v2"}
NoFile == ""

\* What a directory or an archive can hold, and one that does not exist.
Trees == [FileNames -> Contents \cup {NoFile}]
NoTree == [exists |-> FALSE, files |-> [f \in FileNames |-> NoFile]]
Tree(files) == [exists |-> TRUE, files |-> files]

\* No StaticDeployer call was made.
NoStaticCall ==
  [op |-> "none", id |-> "", project |-> "", err |-> "", before |-> NoTree]

\* No ValidateBuildConfig call was made.
NoCheck == [op |-> "none"]

\* The names users register and log in with, a username without a row in
\* the users table, and the state before the first auth.Service call.
Usernames == {"alice", "bob"}
NoUser == [ID |-> 0]
NoLogin ==
  [op |-> "none", username |-> "", err |-> "", token |-> <<>>, unlocked |-> FALSE,
   streak |-> [u \in Usernames |-> 0]]

\* The Repository the auth service is built with: the gorm repository of
\* the application or the mockRepository of the tests.  An empty users
\* table of either.
Repositories == {"gorm", "mock"}
NoAccounts(repository) ==
  [repository |-> repository, users |-> [u \in Usernames |-> NoUser]]

\* A cluster in which nothing was ever deployed.  replicasets is the revision
\* history of each project's workload; rollouts counts the revisions made.
EmptyCluster ==
  [deployments |-> [p \in Projects |-> NoResource],
   services |-> [p \in Projects |-> NoResource],
   ingresses |-> [p \in Projects |-> NoResource],
   replicasets |-> [p \in Projects |-> {}],
   rollouts |-> 0]

\* The strings NodeJSBuilder formats and slices, as sequences of characters.
ProjectIDs == {<<"p", "1">>, <<"w", "e", "b">>}
CommitHashes == {<<>>, <<"a", "b", "c">>}
BuildNames == {<<"b", "1">>, <<"b", "2">>}
ContainerID == <<"c", "1">>

\* NewNodeJSBuilder: no Build call was made yet: no build, no image tag, no
\* response body, no request sent to the container engine, no file written.
NoBuildResult == [Success |-> FALSE, ArtifactPath |-> <<>>, ImageID |-> <<>>]
NewNodeJSBuilder ==
  [pc |-> "idle",
   build |-> [ProjectID |-> <<>>, ID |-> <<>>, CommitHash |-> <<>>],
   imageTag |-> <<>>, body |-> <<>>, deferred |-> FALSE, cause |-> "",
   err |-> "",
   result |-> NoBuildResult, requests |-> <<>>, files |-> {}]

\* NewPipeline: empty registry, nothing running, an empty MetricsCollector;
\* the build root and the static root are empty and no call is in flight.
NewPipeline ==
  /\ builds = [id \in BuildIDs |-> NoBuild]
  /\ build = [b \in Builds |-> Build]
  /\ task = [b \in Builds |-> NoTask]
  /\ ctxDone = [b \in Builds |-> FALSE]
  /\ calls = [b \in Builds |-> NoCalls]
  /\ results = [b \in Builds |-> NoResults]
  /\ cancel = NoCancel
  /\ ret = NoCall
  /\ ncancel = 0
  /\ disk = {}
  /\ metrics = [id \in BuildIDs |-> NoMetrics]
  /\ now = 0
  /\ ctxCancelled = FALSE
  /\ timedOut = [b \in Builds |-> FALSE]
  /\ deploys = [c \in Callers |-> NoDeploy]
  /\ www = [targets |-> [p \in Projects |-> NoTree],
            backups |-> [id \in BuildIDs |-> NoTree]]
  /\ sdep = NoStaticCall
  /\ ndeploy = 0
  /\ vcheck = NoCheck
  /\ login = NoLogin

Init ==
  /\ NewPipeline
  /\ cluster = EmptyCluster
  /\ accounts = NoAccounts("gorm")
  /\ nodejs = NewNodeJSBuilder

\* Pipeline.mu is write-locked: CancelBuild holds it from entry to return;
\* every other critical section is a single step.
muLocked == cancel.pc # "idle"

\* Advance the goroutine of record b.
Goto(b, pc) == task' = [task EXCEPT ![b].pc = pc]
Fail(b, msg) == task' = [task EXCEPT ![b].pc = "return", ![b].err = msg]
Called(b, fn) == calls' = [calls EXCEPT ![b][fn] = @ + 1]
Returned(b, fn, r) == results' = [results EXCEPT ![b][fn] = r]

Call(op, id, b, err) == [op |-> op, id |-> id, build |-> b, err |-> err]

\* StartBuild as it would be if it registered the build before validating it.
StartBuild_RegisterFirst(b, id, fw, st, valid) ==
  /\ task[b].pc = "new"
  /\ ~muLocked
  /\ build' = [build EXCEPT ![b].ID = id, ![b].Framework = fw, ![b].Status = st]
  /\ builds' = [builds EXCEPT ![id] = b]
  /\ Called(b, "ValidateBuildConfig")
  /\ IF ~valid
       THEN /\ Returned(b, "ValidateBuildConfig", "err")
            /\ Goto(b, "rejected")
            /\ ret' = Call("StartBuild", id, b, "build validation failed")
       ELSE /\ Returned(b, "ValidateBuildConfig", "ok")
            /\ Goto(b, "spawned")
            /\ ret' = Call("StartBuild", id, b, "")
  /\ UNCHANGED <<ctxDone, cancel, ncancel, disk, outside>>

(***************************************************************************)
(* Pipeline.StartBuild(ctx, build).  The caller's record b carries the     *)
(* fields the caller chose.  ValidateBuildConfig reads the project on      *)
(* disk, so its verdict is an input.                                       *)
(***************************************************************************)
StartBuild(b, id, fw, st, valid) ==
  /\ task[b].pc = "new"
  /\ build' = [build EXCEPT ![b].ID = id, ![b].Framework = fw, ![b].Status = st]
  /\ Called(b, "ValidateBuildConfig")
  /\ IF ~valid
       THEN \* return fmt.Errorf("build validation failed: %w", err)
            /\ Returned(b, "ValidateBuildConfig", "err")
            /\ Goto(b, "rejected")
            /\ ret' = Call("StartBuild", id, b, "build validation failed")
            /\ UNCHANGED builds
       ELSE \* p.mu.Lock(); p.builds[build.ID] = build; p.mu.Unlock(); go func()
            /\ ~muLocked
            /\ Returned(b, "ValidateBuildConfig", "ok")
            /\ builds' = [builds EXCEPT ![id] = b]
            /\ Goto(b, "spawned")
            /\ ret' = Call("StartBuild", id, b, "")
  /\ UNCHANGED <<ctxDone, cancel, ncancel, disk, outside>>

(***************************************************************************)
(* Pipeline.executeBuild(ctx, build), one step per statement that another  *)
(* goroutine can observe.                                                  *)
(***************************************************************************)

\* build.Status = types.BuildStatusBuilding
ExecSetBuilding(b) ==
  /\ task[b].pc = "spawned"
  /\ build' = [build EXCEPT ![b].Status = BuildStatusBuilding]
  /\ Goto(b, "storeCancel")
  /\ UNCHANGED <<builds, ctxDone, calls, results, cancel, ret, ncancel,
                 disk, outside>>

\* buildCtx, cancel := context.WithCancel(ctx);
\* p.mu.Lock(); build.CancelFunc = cancel; p.mu.Unlock()
ExecStoreCancel(b) ==
  /\ task[b].pc = "storeCancel"
  /\ ~muLocked
  /\ build' = [build EXCEPT ![b].CancelFunc = "cancel"]
  /\ Goto(b, "setup")
  /\ UNCHANGED <<builds, ctxDone, calls, results, cancel, ret, ncancel,
                 disk, outside>>

\* The directories NewBuildContext has made when its n-th os.MkdirAll is
\* the first to fail (n = 3: none failed).
ContextDirs(id, n) ==
  {SubSeq(<<BuildDir(id), ArtifactDir(id), CacheDir(id)>>, 1, n)[i] : i \in 1..n}

\* builder.NewBuildContext and the three os.MkdirAll calls; the cleanup of
\* the build context is deferred once NewBuildContext has returned it.  The
\* three directories lie under one root, so a NewBuildContext that fails is
\* taken to fail at its first os.MkdirAll.
ExecSetup(b) ==
  /\ task[b].pc = "setup"
  /\ \E r \in {"ok", "context", "mkdir"} :
       /\ task' = [task EXCEPT
            ![b].pc = IF r = "ok" THEN "createBuilder" ELSE "return",
            ![b].buildContext = (r # "context"),
            ![b].err = CASE r = "ok" -> ""
                         [] r = "context" -> "failed to create build context"
                         [] r = "mkdir" -> "failed to create build directory"]
       /\ \E n \in {0, 3} :
            /\ (r = "context") <=> (n < 3)
            /\ disk' = disk \cup ContextDirs(build[b].ID, n)
  /\ UNCHANGED <<builds, build, ctxDone, calls, results, cancel, ret,
                 ncancel, outside>>

\* SupportedFramework as it would be if the tags were matched without
\* regard to case.
SupportedFramework_AnyCase(fw) ==
  fw \in {"react", "vue", "svelte", "angular", "React", "Vue", "Svelte", "Angular"}

\* Factory.CreateBuilder: only these tags have a builder.
SupportedFramework(fw) == fw \in {"react", "vue", "svelte", "angular"}

\* The timeout context (discarded) and p.builderFactory.CreateBuilder; the
\* builder's Cleanup is deferred once a builder exists.
ExecCreateBuilder(b) ==
  /\ task[b].pc = "createBuilder"
  /\ IF SupportedFramework(build[b].Framework)
       THEN task' = [task EXCEPT ![b].pc = "build", ![b].builder = TRUE]
       ELSE Fail(b, "failed to create builder")
  /\ UNCHANGED <<builds, build, ctxDone, calls, results, cancel, ret, ncancel,
                 disk, outside>>

\* buildResult, err := builder.Build(ctx, build): the call is made ...
ExecCallBuild(b) ==
  /\ task[b].pc = "build"
  /\ Called(b, "Build")
  /\ Goto(b, "inBuild")
  /\ UNCHANGED <<builds, build, ctxDone, results, cancel, ret, ncancel,
                 disk, outside>>

\* What a successful NodeJSBuilder.Build leaves on disk: its work directory
\* (the build directory) with the artifact file in it.
BuildOutput(id) == {BuildDir(id), ArtifactFile(id)}

\* ExecBuildReturn as it would be if the builder's error were dropped.
ExecBuildReturn_IgnoreError(b) ==
  /\ task[b].pc = "inBuild"
  /\ \E r \in {"ok", "err"} :
       /\ Returned(b, "Build", r)
       /\ disk' = IF r = "ok" THEN disk \cup BuildOutput(build[b].ID) ELSE disk
  /\ Goto(b, "validateArtifact")
  /\ UNCHANGED <<builds, build, ctxDone, calls, cancel, ret, ncancel, outside>>

\* ... and returns, with a result or an error.
ExecBuildReturn(b) ==
  /\ task[b].pc = "inBuild"
  /\ \E r \in {"ok", "err"} :
       /\ Returned(b, "Build", r)
       /\ disk' = IF r = "ok" THEN disk \cup BuildOutput(build[b].ID) ELSE disk
       /\ IF r = "ok" THEN Goto(b, "validateArtifact") ELSE Fail(b, "build failed")
  /\ UNCHANGED <<builds, build, ctxDone, calls, cancel, ret, ncancel, outside>>

\* ExecValidateArtifact as it would be if the validator's error were dropped.
ExecValidateArtifact_IgnoreError(b) ==
  /\ task[b].pc = "validateArtifact"
  /\ Called(b, "ValidateArtifact")
  /\ \E r \in {"ok", "err"} : Returned(b, "ValidateArtifact", r)
  /\ Goto(b, "setSuccess")
  /\ UNCHANGED <<builds, build, ctxDone, cancel, ret, ncancel, disk, outside>>

\* p.validator.ValidateArtifact(buildResult.ArtifactPath)
ExecValidateArtifact(b) ==
  /\ task[b].pc = "validateArtifact"
  /\ Called(b, "ValidateArtifact")
  /\ \E r \in {"ok", "err"} :
       /\ Returned(b, "ValidateArtifact", r)
       /\ IF r = "ok" THEN Goto(b, "setSuccess")
                      ELSE Fail(b, "artifact validation failed")
  /\ UNCHANGED <<builds, build, ctxDone, cancel, ret, ncancel, disk, outside>>

\* build.Status = types.BuildStatusSuccess
ExecSetSuccess(b) ==
  /\ task[b].pc = "setSuccess"
  /\ build' = [build EXCEPT ![b].Status = BuildStatusSuccess]
  /\ Goto(b, "setArtifact")
  /\ UNCHANGED <<builds, ctxDone, calls, results, cancel, ret, ncancel,
                 disk, outside>>

\* ExecSetArtifact as it would be if the image id were not copied.
ExecSetArtifact_NoImageID(b) ==
  /\ task[b].pc = "setArtifact"
  /\ build' = [build EXCEPT ![b].ArtifactPath = BuildResult.ArtifactPath]
  /\ Goto(b, "setCompleteTime")
  /\ UNCHANGED <<builds, ctxDone, calls, results, cancel, ret, ncancel,
                 disk, outside>>

\* build.ArtifactPath = buildResult.ArtifactPath; build.ImageID = buildResult.ImageID
ExecSetArtifact(b) ==
  /\ task[b].pc = "setArtifact"
  /\ build' = [build EXCEPT ![b].ArtifactPath = BuildResult.ArtifactPath,
                            ![b].ImageID = BuildResult.ImageID]
  /\ Goto(b, "setCompleteTime")
  /\ UNCHANGED <<builds, ctxDone, calls, results, cancel, ret, ncancel,
                 disk, outside>>

\* completeTime := time.Now(); build.CompleteTime = &completeTime
ExecSetCompleteTime(b) ==
  /\ task[b].pc = "setCompleteTime"
  /\ build' = [build EXCEPT ![b].CompleteTime = "set"]
  /\ Goto(b, "deploy")
  /\ UNCHANGED <<builds, ctxDone, calls, results, cancel, ret, ncancel,
                 disk, outside>>

\* p.deployer.Deploy(ctx, build): the call is made ...
ExecCallDeploy(b) ==
  /\ task[b].pc = "deploy"
  /\ Called(b, "Deploy")
  /\ Goto(b, "inDeploy")
  /\ UNCHANGED <<builds, build, ctxDone, results, cancel, ret, ncancel,
                 disk, outside>>

\* ExecDeployReturn as it would be if Rollback were called whatever Deploy
\* returned.
ExecDeployReturn_AlwaysRollback(b) ==
  /\ task[b].pc = "inDeploy"
  /\ \E r \in {"ok", "err"} :
       /\ Returned(b, "Deploy", r)
       /\ Goto(b, "rollback")
  /\ UNCHANGED <<builds, build, ctxDone, calls, cancel, ret, ncancel,
                 disk, outside>>

\* ExecDeployReturn as it would be if a failed Deploy returned at once,
\* without the rollback.
ExecDeployReturn_NoRollback(b) ==
  /\ task[b].pc = "inDeploy"
  /\ \E r \in {"ok", "err"} :
       /\ Returned(b, "Deploy", r)
       /\ IF r = "ok" THEN Goto(b, "return") ELSE Fail(b, "deployment failed")
  /\ UNCHANGED <<builds, build, ctxDone, calls, cancel, ret, ncancel,
                 disk, outside>>

\* ... and returns nil (executeBuild returns nil) or an error.
ExecDeployReturn(b) ==
  /\ task[b].pc = "inDeploy"
  /\ \E r \in {"ok", "err"} :
       /\ Returned(b, "Deploy", r)
       /\ Goto(b, IF r = "ok" THEN "return" ELSE "rollback")
  /\ UNCHANGED <<builds, build, ctxDone, calls, cancel, ret, ncancel,
                 disk, outside>>

\* p.deployer.Rollback(ctx, build): the call is made ...
ExecCallRollback(b) ==
  /\ task[b].pc = "rollback"
  /\ Called(b, "Rollback")
  /\ Goto(b, "inRollback")
  /\ UNCHANGED <<builds, build, ctxDone, results, cancel, ret, ncancel,
                 disk, outside>>

\* ExecRollbackReturn as it would be if a failed rollback were reported as
\* the cause.
ExecRollbackReturn_ReportRollback(b) ==
  /\ task[b].pc = "inRollback"
  /\ \E r \in {"ok", "err"} :
       /\ Returned(b, "Rollback", r)
       /\ Fail(b, IF r = "err" THEN "rollback failed" ELSE "deployment failed")
  /\ UNCHANGED <<builds, build, ctxDone, calls, cancel, ret, ncancel,
                 disk, outside>>

\* ... and returns; its error is logged only.
\* return fmt.Errorf("deployment failed: %w", err)
ExecRollbackReturn(b) ==
  /\ task[b].pc = "inRollback"
  /\ \E r \in {"ok", "err"} : Returned(b, "Rollback", r)
  /\ Fail(b, "deployment failed")
  /\ UNCHANGED <<builds, build, ctxDone, calls, cancel, ret, ncancel,
                 disk, outside>>

\* ExecReturn as it would be if the builder were cleaned up only after an
\* execution without error.
ExecReturn_CleanupOnSuccess(b) ==
  /\ task[b].pc = "return"
  /\ disk' = IF task[b].builder \/ task[b].buildContext
              THEN RemoveAll(BuildDir(build[b].ID), disk) ELSE disk
  /\ calls' = [calls EXCEPT
       ![b].BuilderCleanup = IF task[b].builder /\ task[b].err = "" THEN @ + 1 ELSE @,
       ![b].ContextCleanup = IF task[b].buildContext THEN @ + 1 ELSE @]
  /\ ctxDone' = [ctxDone EXCEPT ![b] = TRUE]
  /\ Goto(b, IF task[b].err # "" THEN "setFailed" ELSE "done")
  /\ UNCHANGED <<builds, build, results, cancel, ret, ncancel, outside>>

\* executeBuild returns: the deferred calls run (builder.Cleanup, which
\* removes Options.WorkDir; timeoutCancel; buildContext.Cleanup, which removes
\* BuildContext.BuildDir, the same directory; cancel), then the goroutine of
\* StartBuild tests the error.
ExecReturn(b) ==
  /\ task[b].pc = "return"
  /\ disk' = IF task[b].builder \/ task[b].buildContext
              THEN RemoveAll(BuildDir(build[b].ID), disk) ELSE disk
  /\ calls' = [calls EXCEPT
       ![b].BuilderCleanup = IF task[b].builder THEN @ + 1 ELSE @,
       ![b].ContextCleanup = IF task[b].buildContext THEN @ + 1 ELSE @]
  /\ ctxDone' = [ctxDone EXCEPT ![b] = TRUE]
  /\ Goto(b, IF task[b].err # "" THEN "setFailed" ELSE "done")
  /\ UNCHANGED <<builds, build, results, cancel, ret, ncancel, outside>>

\* ExecSetFailed as it would be if the failure handler left the status as
\* the execution left it.
ExecSetFailed_KeepStatus(b) ==
  /\ task[b].pc = "setFailed"
  /\ Goto(b, "setErrorMessage")
  /\ UNCHANGED <<builds, build, ctxDone, calls, results, cancel, ret, ncancel,
                 disk, outside>>

\* ExecSetFailed as it would be if a failure were recorded in every build
\* of the registry.
ExecSetFailed_EveryBuild(b) ==
  /\ task[b].pc = "setFailed"
  /\ build' = [o \in Builds |->
       IF o = b \/ task[o].pc \notin {"new", "rejected"}
       THEN [build[o] EXCEPT !.Status = BuildStatusFailed] ELSE build[o]]
  /\ Goto(b, "setErrorMessage")
  /\ UNCHANGED <<builds, ctxDone, calls, results, cancel, ret, ncancel,
                 disk, outside>>

\* build.Status = types.BuildStatusFailed
ExecSetFailed(b) ==
  /\ task[b].pc = "setFailed"
  /\ build' = [build EXCEPT ![b].Status = BuildStatusFailed]
  /\ Goto(b, "setErrorMessage")
  /\ UNCHANGED <<builds, ctxDone, calls, results, cancel, ret, ncancel,
                 disk, outside>>

\* build.ErrorMessage = err.Error()
ExecSetErrorMessage(b) ==
  /\ task[b].pc = "setErrorMessage"
  /\ build' = [build EXCEPT ![b].ErrorMessage = task[b].err]
  /\ Goto(b, "done")
  /\ UNCHANGED <<builds, ctxDone, calls, results, cancel, ret, ncancel,
                 disk, outside>>

\* One step of the goroutine of record b.
Exec(b) ==
  \/ ExecSetBuilding(b)
  \/ ExecStoreCancel(b)
  \/ ExecSetup(b)
  \/ ExecCreateBuilder(b)
  \/ ExecCallBuild(b)
  \/ ExecBuildReturn(b)
  \/ ExecValidateArtifact(b)
  \/ ExecSetSuccess(b)
  \/ ExecSetArtifact(b)
  \/ ExecSetCompleteTime(b)
  \/ ExecCallDeploy(b)
  \/ ExecDeployReturn(b)
  \/ ExecCallRollback(b)
  \/ ExecRollbackReturn(b)
  \/ ExecReturn(b)
  \/ ExecSetFailed(b)
  \/ ExecSetErrorMessage(b)

(***************************************************************************)
(* Pipeline.CancelBuild(buildID).  It holds p.mu from entry to return, but *)
(* the goroutine of the build writes the record without the lock, so the   *)
(* statements after the status check are steps of their own.               *)
(***************************************************************************)

\* Cancellable as it would be if only finished builds were refused.
Cancellable_NotTerminal(status) == status \notin TerminalStatuses

\* if build.Status != types.BuildStatusBuilding { return error }
Cancellable(status) == status = BuildStatusBuilding

\* p.mu.Lock(); the lookup in p.builds; the status check.
CancelBuild(id) ==
  /\ ~muLocked
  /\ ncancel < MaxCancels
  /\ ncancel' = ncancel + 1
  /\ IF builds[id] = NoBuild
       THEN /\ ret' = Call("CancelBuild", id, NoBuild, "build not found")
            /\ UNCHANGED cancel
       ELSE IF ~Cancellable(build[builds[id]].Status)
       THEN /\ ret' = Call("CancelBuild", id, builds[id], "cannot cancel build")
            /\ UNCHANGED cancel
       ELSE /\ cancel' = [pc |-> "cancelFunc", id |-> id, build |-> builds[id]]
            /\ UNCHANGED ret
  /\ UNCHANGED <<builds, build, task, ctxDone, calls, results, disk, outside>>

\* if build.CancelFunc != nil { build.CancelFunc() }
CancelBuildCancelFunc ==
  /\ cancel.pc = "cancelFunc"
  /\ IF build[cancel.build].CancelFunc # "nil"
       THEN /\ Called(cancel.build, "CancelFunc")
            /\ ctxDone' = [ctxDone EXCEPT ![cancel.build] = TRUE]
       ELSE UNCHANGED <<calls, ctxDone>>
  /\ cancel' = [cancel EXCEPT !.pc = "setCancelled"]
  /\ UNCHANGED <<builds, build, task, results, ret, ncancel, disk, outside>>

\* build.Status = types.BuildStatusCancelled
CancelBuildSetCancelled ==
  /\ cancel.pc = "setCancelled"
  /\ build' = [build EXCEPT ![cancel.build].Status = BuildStatusCancelled]
  /\ cancel' = [cancel EXCEPT !.pc = "setCompleteTime"]
  /\ UNCHANGED <<builds, task, ctxDone, calls, results, ret, ncancel,
                 disk, outside>>

\* build.CompleteTime = &completeTime; return nil (p.mu.Unlock() deferred)
CancelBuildSetCompleteTime ==
  /\ cancel.pc = "setCompleteTime"
  /\ build' = [build EXCEPT ![cancel.build].CompleteTime = "set"]
  /\ ret' = Call("CancelBuild", cancel.id, cancel.build, "")
  /\ Returned(cancel.build, "CancelBuild", "ok")
  /\ cancel' = NoCancel
  /\ UNCHANGED <<builds, task, ctxDone, calls, ncancel, disk, outside>>

\* A CancelBuild call that passed its checks goes on to return.
CancelBuildStep ==
  \/ CancelBuildCancelFunc
  \/ CancelBuildSetCancelled
  \/ CancelBuildSetCompleteTime

\* GetBuild as it would be if it reported builds that are not building as
\* not found.
GetBuild_OnlyBuilding(id) ==
  /\ ~muLocked
  /\ ret' = IF builds[id] = NoBuild \/ build[builds[id]].Status # BuildStatusBuilding
              THEN Call("GetBuild", id, NoBuild, "build not found")
              ELSE Call("GetBuild", id, builds[id], "")
  /\ UNCHANGED <<builds, build, task, ctxDone, calls, results, cancel, ncancel,
                 disk, outside>>

(***************************************************************************)
(* Pipeline.GetBuild(buildID), under p.mu.RLock().                         *)
(***************************************************************************)
GetBuild(id) ==
  /\ ~muLocked
  /\ ret' = IF builds[id] = NoBuild
              THEN Call("GetBuild", id, NoBuild, "build not found")
              ELSE Call("GetBuild", id, builds[id], "")
  /\ UNCHANGED <<builds, build, task, ctxDone, calls, results, cancel, ncancel,
                 disk, outside>>

\* The Build.ID values the caller of record b may give it: the records are
\* interchangeable, so the first one always carries "b1".
IDsOf(b) == IF b = "r1" THEN {"b1"} ELSE BuildIDs

Next ==
  \/ \E b \in Builds : \E id \in IDsOf(b), fw \in Frameworks,
        st \in SubmittedStatuses, valid \in BOOLEAN :
       StartBuild(b, id, fw, st, valid)
  \/ \E b \in Builds : Exec(b)
  \/ \E id \in BuildIDs : CancelBuild(id)
  \/ CancelBuildStep
  \/ \E id \in BuildIDs : GetBuild(id)

Spec == Init /\ [][Next]_vars

\* Two builds of supported frameworks, submitted as createTestBuild does
\* (status pending) under ids of their own, with CancelBuild callers.
FairNext ==
  \/ \E valid \in BOOLEAN : StartBuild("r1", "b1", "react", "pending", valid)
  \/ \E valid \in BOOLEAN : StartBuild("r2", "b2", "react", "pending", valid)
  \/ \E b \in Builds : Exec(b)
  \/ \E id \in BuildIDs : CancelBuild(id)
  \/ CancelBuildStep

\* The scheduler runs every goroutine that can take a step, and every call
\* made to a builder, validator or deployer returns.
FairSpec ==
  /\ Init
  /\ [][FairNext]_vars
  /\ \A b \in Builds : WF_vars(Exec(b))
  /\ WF_vars(CancelBuildStep)

(***************************************************************************)
(* The contexts of one execution.  executeBuild derives buildCtx from the  *)
(* caller's ctx (context.WithCancel, line 508) and the timeout context     *)
(* from buildCtx (context.WithTimeout, line 542): a derived context is     *)
(* done as soon as its parent is.                                          *)
(***************************************************************************)
Done(b, c) ==
  CASE c = "ctx" -> ctxCancelled
    [] c = "buildCtx" -> ctxDone[b] \/ ctxCancelled
    [] c = "timeoutCtx" -> timedOut[b] \/ ctxDone[b] \/ ctxCancelled

\* The context executeBuild hands to builder.Build (line 564) and to
\* p.deployer.Deploy (line 582): the caller's ctx both times.
BuilderCtx == "ctx"
DeployerCtx == "ctx"

\* The timeout context exists: from context.WithTimeout (line 542) until the
\* deferred timeoutCancel.
TimeoutArmed(b) ==
  \/ task[b].pc \in {"build", "inBuild", "validateArtifact", "setSuccess",
                     "setArtifact", "setCompleteTime", "deploy", "inDeploy",
                     "rollback", "inRollback"}
  \/ /\ task[b].pc = "return"
     /\ task[b].err \notin {"failed to create build context",
                            "failed to create build directory"}

\* PipelineConfig.DefaultTimeout elapses: the timer of the timeout context
\* fires.
Timeout(b) ==
  /\ TimeoutArmed(b)
  /\ ~timedOut[b]
  /\ timedOut' = [timedOut EXCEPT ![b] = TRUE]
  /\ UNCHANGED <<builds, build, task, ctxDone, calls, results, cancel, ret,
                 ncancel, disk, metrics, now, ctxCancelled, cluster, deploys,
                 apart>>

\* The caller cancels the context it passed to StartBuild.
CancelCtx ==
  /\ ~ctxCancelled
  /\ ctxCancelled' = TRUE
  /\ UNCHANGED <<builds, build, task, ctxDone, calls, results, cancel, ret,
                 ncancel, disk, metrics, now, timedOut, cluster, deploys,
                 apart>>

\* builder.Build returns, for a builder that blocks until the context it was
\* given is done (NodeJSBuilder.Build blocked in dockerCli.ImageBuild).
BlockingBuildReturn(b) ==
  /\ Done(b, BuilderCtx)
  /\ ExecBuildReturn(b)

\* One step of the goroutine of record b when its builder blocks.
BlockingExec(b) ==
  \/ ExecSetBuilding(b)
  \/ ExecStoreCancel(b)
  \/ ExecSetup(b)
  \/ ExecCreateBuilder(b)
  \/ ExecCallBuild(b)
  \/ BlockingBuildReturn(b)
  \/ ExecValidateArtifact(b)
  \/ ExecSetSuccess(b)
  \/ ExecSetArtifact(b)
  \/ ExecSetCompleteTime(b)
  \/ ExecCallDeploy(b)
  \/ ExecDeployReturn(b)
  \/ ExecCallRollback(b)
  \/ ExecRollbackReturn(b)
  \/ ExecReturn(b)
  \/ ExecSetFailed(b)
  \/ ExecSetErrorMessage(b)

\* Builds whose builder blocks until its context is done, with the timers
\* running and no CancelBuild caller.
TimeoutNext ==
  \/ \E valid \in BOOLEAN : StartBuild("r1", "b1", "react", "pending", valid)
  \/ \E valid \in BOOLEAN : StartBuild("r2", "b2", "react", "pending", valid)
  \/ \E b \in Builds : BlockingExec(b)
  \/ \E b \in Builds : Timeout(b)
  \/ CancelCtx

\* The scheduler runs every goroutine that can take a step and every timer
\* that is armed fires; the caller need not cancel its context.
TimeoutSpec ==
  /\ Init
  /\ [][TimeoutNext]_vars
  /\ \A b \in Builds : WF_vars(BlockingExec(b)) /\ WF_vars(Timeout(b))

(***************************************************************************)
(* MetricsCollector.  NewPipeline creates one; StartBuild, executeBuild    *)
(* and CancelBuild never call it, so only a caller that holds the          *)
(* collector itself records anything.                                      *)
(***************************************************************************)

\* The last reading of the clock a behaviour takes.
MaxTime == 3

\* time.Now() moves on.
Tick ==
  /\ now < MaxTime
  /\ now' = now + 1
  /\ UNCHANGED <<pipeline, apart, metrics, ctxCancelled, timedOut, cluster, deploys>>

\* MetricsCollector.StartBuild(buildID)
MetricsStartBuild(id) ==
  /\ metrics' = [metrics EXCEPT ![id] =
       [StartTime |-> now, EndTime |-> 0, BuildDuration |-> 0,
        Status |-> "running"]]
  /\ UNCHANGED <<pipeline, apart, now, ctxCancelled, timedOut, cluster, deploys>>

\* MetricsCollector.EndBuild(buildID, status)
MetricsEndBuild(id, status) ==
  /\ metrics' = IF metrics[id] # NoMetrics
                 THEN [metrics EXCEPT ![id].EndTime = now,
                                      ![id].BuildDuration = now - metrics[id].StartTime,
                                      ![id].Status = status]
                 ELSE metrics
  /\ UNCHANGED <<pipeline, apart, now, ctxCancelled, timedOut, cluster, deploys>>

\* A holder of the collector calling it as time passes.
MetricsNext ==
  \/ Tick
  \/ \E id \in BuildIDs : MetricsStartBuild(id)
  \/ \E id \in BuildIDs, status \in TerminalStatuses : MetricsEndBuild(id, status)

MetricsSpec == Init /\ [][MetricsNext]_vars

(***************************************************************************)
(* deployer.K8sDeployer.  Every resource of a build carries the name       *)
(* build.ProjectID, and the cluster keeps one resource per kind and name:  *)
(* a create of a name that exists fails with AlreadyExists.  Each request  *)
(* to the cluster is a step, so the calls of concurrently running builds   *)
(* interleave, and each request may fail.                                  *)
(***************************************************************************)

\* The three resources, in the order Deploy applies them.
Kinds == <<"deployments", "services", "ingresses">>

\* The annotation Rollback stamps on the workload.
ChangeCause == "Rollback triggered by Chef"

\* The object Deploy builds for a kind: the deployment runs build.ImageID
\* and carries no annotation; the service and the ingress depend on the
\* project only.
Resource(kind, project, image) ==
  CASE kind = "deployments" -> [name |-> project, image |-> image, cause |-> ""]
    [] kind = "services" -> [name |-> project, port |-> 80]
    [] kind = "ingresses" -> [name |-> project, service |-> project]

\* The decimal digits of a revision annotation, which is a string: a
\* sequence of characters.
Digits == <<"0", "1", "2", "3", "4", "5", "6", "7", "8", "9">>

\* strconv.Atoi of a string of decimal digits; Rollback drops the error,
\* which leaves 0 for the empty string.
RECURSIVE Atoi(_)
Atoi(s) ==
  IF s = <<>>
    THEN 0
    ELSE 10 * Atoi(SubSeq(s, 1, Len(s) - 1))
           + (CHOOSE d \in 0..9 : Digits[d + 1] = s[Len(s)])

\* The annotation of revision n, as the test writes it: its decimal digits.
RECURSIVE Itoa(_)
Itoa(n) ==
  IF n < 10
    THEN <<Digits[n + 1]>>
    ELSE Itoa(n \div 10) \o <<Digits[(n % 10) + 1]>>

\* The newest revision number in a revision history, 0 in an empty one.
Newest(history) ==
  IF history = {}
    THEN 0
    ELSE CHOOSE n \in {Atoi(rs.revision) : rs \in history} :
           \A rs \in history : Atoi(rs.revision) <= n

\* The revision history after the workload was created or updated with an
\* image: a template that differs from the newest revision's becomes the
\* next revision (the replica set of that template, if the history has one,
\* moves up to it); an unchanged template leaves the history as it is.
Rollout(history, image) ==
  IF \E rs \in history : rs.image = image /\ Atoi(rs.revision) = Newest(history)
    THEN history
    ELSE {rs \in history : rs.image # image}
           \cup {[revision |-> Itoa(Newest(history) + 1), image |-> image]}

\* A cluster request of a caller replaced project's workload by the object
\* deployment: the revision history follows.
Applied(project, deployment) ==
  [cluster EXCEPT
     !.deployments[project] = deployment,
     !.replicasets[project] = Rollout(@, deployment.image),
     !.rollouts = IF Rollout(cluster.replicasets[project], deployment.image)
                      = cluster.replicasets[project]
                    THEN @ ELSE @ + 1]

\* Caller c is inside a Deploy call; inside a Deploy or a Rollback call.
InDeploy(c) == deploys[c].pc \in {"create", "update"}
InRollback(c) == deploys[c].pc \in {"get", "list", "apply"}
InFlight(c) == InDeploy(c) \/ InRollback(c)

\* The Deploy call of caller c returned an error; executeBuild calls
\* Rollback next.
DeployFailed(c) ==
  deploys[c].op = "Deploy" /\ deploys[c].pc = "done" /\ deploys[c].err # ""

\* Caller c enters a call for project with the call record d: the callers
\* whose call for the same project is in flight, or whose failed Deploy is
\* about to be rolled back, now overlap with another call.
Enter(c, project, d) ==
  [o \in Callers |->
     IF o = c
       THEN [d EXCEPT !.overlapped =
               \/ d.overlapped
               \/ \E x \in Callers \ {c} :
                    InFlight(x) /\ deploys[x].project = project]
       ELSE IF deploys[o].project = project /\ (InFlight(o) \/ DeployFailed(o))
         THEN [deploys[o] EXCEPT !.overlapped = TRUE]
         ELSE deploys[o]]

\* Deploy moves on to the next resource, or returns nil after the last.
DeployAdvance(d) ==
  IF d.stage < Len(Kinds)
    THEN [d EXCEPT !.pc = "create", !.stage = @ + 1]
    ELSE [d EXCEPT !.pc = "done", !.err = ""]

\* d.Deploy(ctx, build) is called with build.ProjectID and build.ImageID.
K8sDeploy(c, project, image) ==
  /\ ~InFlight(c)
  /\ cluster.rollouts < MaxRollouts
  /\ deploys' = Enter(c, project,
       [NoDeploy EXCEPT !.op = "Deploy", !.pc = "create",
                        !.project = project, !.image = image,
                        !.before = cluster.deployments[project]])
  /\ UNCHANGED <<pipeline, apart, metrics, now, ctxCancelled, timedOut, cluster>>

\* DeployCreate as it would be if a resource that already exists were left
\* as it is.
DeployCreate_KeepExisting(c) ==
  LET d == deploys[c]
      kind == Kinds[d.stage]
  IN /\ d.pc = "create"
     /\ \/ /\ cluster[kind][d.project] = NoResource
           /\ cluster' =
                IF kind = "deployments"
                  THEN Applied(d.project, Resource(kind, d.project, d.image))
                  ELSE [cluster EXCEPT
                          ![kind][d.project] = Resource(kind, d.project, d.image)]
           /\ deploys' = [deploys EXCEPT ![c] = DeployAdvance(d)]
        \/ /\ cluster[kind][d.project] # NoResource
           /\ deploys' = [deploys EXCEPT ![c] = DeployAdvance(d)]
           /\ UNCHANGED cluster
        \/ /\ deploys' = [deploys EXCEPT
                ![c].pc = "done", ![c].err = "failed to create"]
           /\ UNCHANGED cluster
     /\ UNCHANGED <<pipeline, apart, metrics, now, ctxCancelled, timedOut>>

\* d.k8sClient.CreateDeployment / CreateService / CreateIngress: the
\* resource is created, or exists already (Deploy goes on to update it), or
\* the request fails and Deploy returns the error.
DeployCreate(c) ==
  LET d == deploys[c]
      kind == Kinds[d.stage]
  IN /\ d.pc = "create"
     /\ \/ /\ cluster[kind][d.project] = NoResource
           /\ cluster' =
                IF kind = "deployments"
                  THEN Applied(d.project, Resource(kind, d.project, d.image))
                  ELSE [cluster EXCEPT
                          ![kind][d.project] = Resource(kind, d.project, d.image)]
           /\ deploys' = [deploys EXCEPT ![c] = DeployAdvance(d)]
        \/ /\ cluster[kind][d.project] # NoResource
           /\ deploys' = [deploys EXCEPT ![c].pc = "update"]
           /\ UNCHANGED cluster
        \/ /\ deploys' = [deploys EXCEPT
                ![c].pc = "done", ![c].err = "failed to create"]
           /\ UNCHANGED cluster
     /\ UNCHANGED <<pipeline, apart, metrics, now, ctxCancelled, timedOut>>

\* d.k8sClient.UpdateDeployment / UpdateService / UpdateIngress after
\* AlreadyExists: the resource is replaced, or the request fails and Deploy
\* returns the error.
DeployUpdate(c) ==
  LET d == deploys[c]
      kind == Kinds[d.stage]
  IN /\ d.pc = "update"
     /\ \/ /\ cluster[kind][d.project] # NoResource
           /\ cluster' =
                IF kind = "deployments"
                  THEN Applied(d.project, Resource(kind, d.project, d.image))
                  ELSE [cluster EXCEPT
                          ![kind][d.project] = Resource(kind, d.project, d.image)]
           /\ deploys' = [deploys EXCEPT
                ![c] = DeployAdvance([d EXCEPT !.updated = @ \cup {kind}])]
        \/ /\ deploys' = [deploys EXCEPT
                ![c].pc = "done", ![c].err = "failed to update"]
           /\ UNCHANGED cluster
     /\ UNCHANGED <<pipeline, apart, metrics, now, ctxCancelled, timedOut>>

\* d.Rollback(ctx, build), which executeBuild calls with the build whose
\* Deploy returned an error: it carries on what that Deploy found and
\* whether another call overlapped.
K8sRollback(c) ==
  /\ DeployFailed(c)
  /\ deploys' = Enter(c, deploys[c].project,
       [NoDeploy EXCEPT
          !.op = "Rollback", !.pc = "get",
          !.project = deploys[c].project, !.image = deploys[c].image,
          !.before = deploys[c].before,
          !.overlapped = deploys[c].overlapped])
  /\ UNCHANGED <<pipeline, apart, metrics, now, ctxCancelled, timedOut, cluster>>

\* Rollback returns err: the workload it held and what it carried on from
\* Deploy are gone with the call.
RollbackReturn(d, err) ==
  [d EXCEPT !.pc = "done", !.err = err, !.deployment = NoResource,
            !.before = NoResource]

\* d.k8sClient.GetDeployment: Rollback holds the workload as it is now, or
\* the workload does not exist or the request fails and Rollback returns
\* the error.
RollbackGet(c) ==
  LET d == deploys[c]
  IN /\ d.pc = "get"
     /\ \/ /\ cluster.deployments[d.project] # NoResource
           /\ deploys' = [deploys EXCEPT
                ![c].pc = "list",
                ![c].deployment = cluster.deployments[d.project]]
        \/ deploys' = [deploys EXCEPT
             ![c] = RollbackReturn(d, "failed to get deployment")]
     /\ UNCHANGED <<pipeline, apart, metrics, now, ctxCancelled, timedOut, cluster>>

\* The orders in which a list request may return the members of a set.
Listings(S) ==
  {items \in [1..Cardinality(S) -> S] : \A x \in S : \E i \in DOMAIN items : items[i] = x}

\* The comparison Rollback sorts with: the revision annotations as numbers,
\* greater first.
ByRevision(a, b) == Atoi(a.revision) > Atoi(b.revision)

\* sort.Slice as it would be if it left the items in the order they were
\* listed in.
RECURSIVE SortSlice(_)
SortSlice_AsListed(items) == items

\* sort.Slice with ByRevision: each item goes behind the items that come
\* before it in the order.
SortSlice(items) ==
  IF Len(items) <= 1
    THEN items
    ELSE LET rest == SortSlice(Tail(items))
             k == Cardinality({i \in 1..Len(rest) : ByRevision(rest[i], Head(items))})
         IN SubSeq(rest, 1, k) \o <<Head(items)>> \o SubSeq(rest, k + 1, Len(rest))

\* RollbackList as it would be if a history without a previous revision
\* made Rollback return nil.
RollbackList_NoError(c) ==
  LET d == deploys[c]
  IN /\ d.pc = "list"
     /\ \/ \E listed \in Listings(cluster.replicasets[d.project]) :
             deploys' = [deploys EXCEPT ![c] =
               IF Len(listed) <= 1
                 THEN RollbackReturn([d EXCEPT !.listed = listed], "")
                 ELSE [d EXCEPT
                         !.pc = "apply", !.listed = listed,
                         !.deployment =
                            [@ EXCEPT !.image = SortSlice(listed)[2].image,
                                      !.cause = ChangeCause]]]
        \/ deploys' = [deploys EXCEPT
             ![c] = RollbackReturn(d, "failed to get deployment history")]
     /\ UNCHANGED <<pipeline, apart, metrics, now, ctxCancelled, timedOut, cluster>>

\* d.k8sClient.ListReplicaSets with the project's label, in whatever order
\* the cluster lists them: with at most one item Rollback returns an error;
\* otherwise it sorts the items, takes revisions.Items[1] and puts its
\* containers and the change cause into the workload it holds.  Or the
\* request fails and Rollback returns the error.
RollbackList(c) ==
  LET d == deploys[c]
  IN /\ d.pc = "list"
     /\ \/ \E listed \in Listings(cluster.replicasets[d.project]) :
             deploys' = [deploys EXCEPT ![c] =
               IF Len(listed) <= 1
                 THEN RollbackReturn([d EXCEPT !.listed = listed],
                        "no previous revision available for rollback")
                 ELSE [d EXCEPT
                         !.pc = "apply", !.listed = listed,
                         !.deployment =
                            [@ EXCEPT !.image = SortSlice(listed)[2].image,
                                      !.cause = ChangeCause]]]
        \/ deploys' = [deploys EXCEPT
             ![c] = RollbackReturn(d, "failed to get deployment history")]
     /\ UNCHANGED <<pipeline, apart, metrics, now, ctxCancelled, timedOut, cluster>>

\* d.k8sClient.UpdateDeployment with the workload Rollback holds: the
\* workload is replaced and Rollback returns nil, or the request fails and
\* Rollback returns the error.
RollbackUpdate(c) ==
  LET d == deploys[c]
  IN /\ d.pc = "apply"
     /\ \/ /\ cluster.deployments[d.project] # NoResource
           /\ cluster' = Applied(d.project, d.deployment)
           /\ deploys' = [deploys EXCEPT ![c] =
                RollbackReturn([d EXCEPT !.updated = @ \cup {"deployments"}], "")]
        \/ /\ deploys' = [deploys EXCEPT
                ![c] = RollbackReturn(d, "failed to rollback deployment")]
           /\ UNCHANGED cluster
     /\ UNCHANGED <<pipeline, apart, metrics, now, ctxCancelled, timedOut>>

\* A cluster in which project p1 runs img1 after two earlier images (its
\* history has the revisions 8, 9 and 10) and project p2 was never deployed.
RunningCluster ==
  [EmptyCluster EXCEPT
     !.deployments["p1"] = Resource("deployments", "p1", "img1"),
     !.services["p1"] = Resource("services", "p1", "img1"),
     !.ingresses["p1"] = Resource("ingresses", "p1", "img1"),
     !.replicasets["p1"] = {[revision |-> Itoa(8), image |-> "img0"],
                            [revision |-> Itoa(9), image |-> "img2"],
                            [revision |-> Itoa(10), image |-> "img1"]}]

\* The deployer is handed a cluster that runs one project and has nothing
\* of the other.
K8sInit ==
  /\ NewPipeline
  /\ cluster = RunningCluster
  /\ accounts = NoAccounts("gorm")
  /\ nodejs = NewNodeJSBuilder

\* The projects whose builds a caller deploys: one caller deploys any, the
\* other the first (the callers are interchangeable).
ProjectsOf(c) == IF c = "c1" THEN {"p1"} ELSE Projects

\* The Deploy and Rollback calls the builds of the projects make on one
\* cluster.
K8sNext ==
  \/ \E c \in Callers, image \in Images :
       \E project \in ProjectsOf(c) : K8sDeploy(c, project, image)
  \/ \E c \in Callers : DeployCreate(c)
  \/ \E c \in Callers : DeployUpdate(c)
  \/ \E c \in Callers : K8sRollback(c)
  \/ \E c \in Callers : RollbackGet(c)
  \/ \E c \in Callers : RollbackList(c)
  \/ \E c \in Callers : RollbackUpdate(c)

K8sSpec == K8sInit /\ [][K8sNext]_vars

(***************************************************************************)
(* deployer.StaticDeployer.  The static root holds one target directory    *)
(* per project and one backup archive per build id.  A directory and an    *)
(* archive are the files they hold, by name; tar -x writes the files of an *)
(* archive over a directory and leaves every other file of the directory   *)
(* in place.                                                               *)
(***************************************************************************)

\* tar -xzf archive -C dir, of which the files named in written were
\* written before tar ended.
Extract(archive, dir, written) ==
  [f \in FileNames |->
     IF f \in written /\ archive[f] # NoFile THEN archive[f] ELSE dir[f]]

\* The static root after extractArtifact(artifactPath, targetDir) on the
\* target directory of a project.  With an error: os.MkdirAll failed and
\* nothing changed, or the directory exists from then on and tar failed,
\* without the archive or after writing some of its files.  Without: tar
\* wrote all the files of the archive.
ExtractArtifact(w, archive, project, ok) ==
  IF ok
    THEN IF archive.exists
           THEN {[w EXCEPT !.targets[project] =
                   Tree(Extract(archive.files, @.files, FileNames))]}
           ELSE {}
    ELSE {w} \cup
         {[w EXCEPT !.targets[project] =
             Tree(Extract(archive.files, @.files, written))] :
            written \in SUBSET FileNames}

\* The static root after createBackup(sourceDir, build): nothing to do
\* without a target directory; otherwise tar -c archives the directory
\* under the build id.
CreateBackup(w, id, project) ==
  IF w.targets[project].exists
    THEN [w EXCEPT !.backups[id] = w.targets[project]]
    ELSE w

\* StaticDeployer.Deploy(ctx, build) with build.ID, build.ProjectID and the
\* archive at build.ArtifactPath: the static root cannot be made, or the
\* backup of an existing deployment fails, or the backup is made (if there
\* is a deployment) and the artifact is extracted into the target
\* directory.
StaticDeploy(id, project, artifact) ==
  LET call == [op |-> "Deploy", id |-> id, project |-> project, err |-> "",
               before |-> www.targets[project]]
  IN /\ ndeploy < MaxStaticDeploys
     /\ ndeploy' = ndeploy + 1
     /\ \/ /\ sdep' = [call EXCEPT !.err = "failed to create static directory"]
           /\ UNCHANGED www
        \/ /\ www.targets[project].exists
           /\ sdep' = [call EXCEPT !.err = "failed to create backup"]
           /\ UNCHANGED www
        \/ \E ok \in BOOLEAN :
             /\ sdep' = [call EXCEPT !.err =
                  IF ok THEN "" ELSE "failed to extract artifact"]
             /\ www' \in ExtractArtifact(CreateBackup(www, id, project),
                                         artifact, project, ok)
     /\ UNCHANGED <<pipeline, env, k8s, vcheck, auth, nodejs>>

\* StaticDeployer.Rollback(ctx, build) for the build of the Deploy call
\* before it: the backup archive of the build id is extracted into the
\* target directory of the project.
StaticRollback ==
  /\ sdep.op = "Deploy"
  /\ \E ok \in BOOLEAN :
       /\ sdep' = [sdep EXCEPT !.op = "Rollback", !.err =
            IF ok THEN "" ELSE "failed to restore backup"]
       /\ www' \in ExtractArtifact(www, www.backups[sdep.id], sdep.project, ok)
  /\ UNCHANGED ndeploy
  /\ UNCHANGED <<pipeline, env, k8s, vcheck, auth, nodejs>>

\* The calls the builds of the projects make on one static root.
StaticNext ==
  \/ \E id \in BuildIDs, project \in Projects, files \in Trees :
       StaticDeploy(id, project, Tree(files))
  \/ \E id \in BuildIDs, project \in Projects :
       StaticDeploy(id, project, NoTree)
  \/ StaticRollback

StaticSpec == Init /\ [][StaticNext]_vars

(***************************************************************************)
(* validator.NodeJSValidator.ValidateBuildConfig, a function of the build, *)
(* of the file package.json in the build's work directory and of           *)
(* NodeJSConfig.AllowedEngines.                                            *)
(***************************************************************************)

\* build.BuilderConfig: with the keys sourceDir and workDir, or with
\* sourceDir only.
BuilderConfigs ==
  {[sourceDir |-> "app", workDir |-> "app"], [sourceDir |-> "app"]}

\* build.BuildCommand.
BuildCommands == {"", "build", "lint"}

\* NodeJSConfig.AllowedEngines.
AllowedEngines == {<<>>, <<"18">>, <<"18", "20">>}

\* engines.node of a package.json: the key is absent, or its value.
NoEngine == "absent"
Engines == {NoEngine, "", "18", "20", "21"}

\* The file package.json: there is none, or it is not JSON, or it is JSON
\* that does not fit PackageJSON (a script that is not a string), or it
\* is a manifest with its engines.node and the names of its scripts.
PackageFiles ==
  {[kind |-> k, node |-> NoEngine, scripts |-> {}] :
     k \in {"missing", "invalid", "mistyped"}}
  \cup [kind : {"manifest"}, node : Engines, scripts : SUBSET {"build", "test"}]

\* readPackageJSON: the type assertion on BuilderConfig["workDir"] panics
\* without the key; os.ReadFile fails without the file; json.Unmarshal
\* fails on text that is not JSON or does not fit PackageJSON, and gives
\* the empty string for an engines.node that is absent.
readPackageJSON(config, file) ==
  IF "workDir" \notin DOMAIN config
    THEN [err |-> "panic"]
    ELSE CASE file.kind = "missing" -> [err |-> "failed to read package.json"]
           [] file.kind \in {"invalid", "mistyped"} -> [err |-> "invalid package.json"]
           [] OTHER -> [err |-> "",
                        Engines |-> IF file.node = NoEngine
                                      THEN [node |-> ""]
                                      ELSE [node |-> file.node],
                        Scripts |-> file.scripts]

\* validateNodeVersion as it would be if every declared version were
\* taken.
validateNodeVersion_Any(pkg, allowed) == ""

\* validateNodeVersion: no constraint, or the version equals an allowed one.
validateNodeVersion(pkg, allowed) ==
  IF pkg.Engines.node = ""
    THEN ""
    ELSE IF \E i \in DOMAIN allowed : pkg.Engines.node = allowed[i]
      THEN ""
      ELSE "unsupported node version"

\* validateBuildScript: the build command is there and is a script.
validateBuildScript(pkg, command) ==
  IF command = ""
    THEN "build command is required"
    ELSE IF command \notin pkg.Scripts
      THEN "build command not found in package.json scripts"
      ELSE ""

\* ValidateBuildConfig: the first error of the three steps, or nil ("").
ValidateBuildConfig(config, command, file, allowed) ==
  LET pkg == readPackageJSON(config, file)
  IN IF pkg.err # ""
       THEN pkg.err
       ELSE IF validateNodeVersion(pkg, allowed) # ""
         THEN validateNodeVersion(pkg, allowed)
         ELSE validateBuildScript(pkg, command)

\* A caller validates a build.
Validate(config, command, file, allowed) ==
  /\ vcheck' = [op |-> "ValidateBuildConfig", BuilderConfig |-> config,
                BuildCommand |-> command, file |-> file, allowed |-> allowed,
                err |-> ValidateBuildConfig(config, command, file, allowed)]
  /\ UNCHANGED <<pipeline, env, k8s, static, auth, nodejs>>

ValidatorNext ==
  \E config \in BuilderConfigs, command \in BuildCommands,
     file \in PackageFiles, allowed \in AllowedEngines :
    Validate(config, command, file, allowed)

ValidatorSpec == Init /\ [][ValidatorNext]_vars

(***************************************************************************)
(* auth.Service.RegisterUser and ValidateLogin over a Repository.  The     *)
(* gorm repository answers GetUserByUsername with a copy of the row, so    *)
(* the *User that ValidateLogin holds stays as it was read while the       *)
(* repository updates the row; the mockRepository hands out the record it  *)
(* stores, so its updates show in the *User that ValidateLogin holds.      *)
(***************************************************************************)

\* Passwords; the lock duration of ValidateLogin in clock ticks; a nil
\* *time.Time; the cap of the count of consecutive rejected passwords.
Passwords == {"right", "wrong"}
LockDuration == 2
NilTime == 0 - 1
MaxStreak == 6

\* bcrypt: a hash of the password, and its comparison.
HashPassword(password) == <<"bcrypt", password>>
CheckPasswordHash(password, hash) == hash = HashPassword(password)

\* GenerateToken: the signed claims of the user; no token is <<>>.
GenerateToken(username) == <<"jwt", username>>

\* Repository.UpdateLoginAttempts, LockAccount and UnlockAccount on the
\* row of a user.
UpdateLoginAttempts(users, u, failed) ==
  [users EXCEPT ![u].LastLoginAttempt = now,
                ![u].FailedLoginCount = IF failed THEN @ + 1 ELSE 0]
LockAccount(users, u, duration) ==
  [users EXCEPT ![u].Locked = TRUE, ![u].LockUntil = now + duration]
UnlockAccount(users, u) ==
  [users EXCEPT ![u].Locked = FALSE, ![u].LockUntil = NilTime,
                ![u].FailedLoginCount = 0]

\* The *User ValidateLogin holds after the repository went from the row it
\* read to users: the stored record with the mock, the copy with gorm.
Held(user, users, u) ==
  IF accounts.repository = "mock" THEN users[u] ELSE user

\* The condition of ValidateLogin for unlocking, as it would be if a lock
\* never ran out.
LockExpired_Never(user) == FALSE

\* user.LockUntil != nil && time.Now().After(*user.LockUntil)
LockExpired(user) == user.LockUntil # NilTime /\ now > user.LockUntil

\* Service.RegisterUser: CreateUser stores the user with the hash of the
\* password, or answers that the user exists.
RegisterUser(u, password) ==
  /\ IF accounts.users[u] # NoUser
       THEN /\ login' = [login EXCEPT !.op = "RegisterUser", !.username = u,
                                      !.err = "user already exists",
                                      !.token = <<>>, !.unlocked = FALSE]
            /\ UNCHANGED accounts
       ELSE /\ accounts' = [accounts EXCEPT !.users[u] =
                 [ID |-> Cardinality({x \in Usernames : accounts.users[x] # NoUser}) + 1,
                  PasswordHash |-> HashPassword(password),
                  FailedLoginCount |-> 0, LastLoginAttempt |-> NilTime,
                  Locked |-> FALSE, LockUntil |-> NilTime]]
            /\ login' = [login EXCEPT !.op = "RegisterUser", !.username = u,
                                      !.err = "", !.token = <<>>, !.unlocked = FALSE,
                                      !.streak[u] = 0]
  /\ UNCHANGED <<pipeline, env, k8s, static, vcheck, nodejs>>

\* What a ValidateLogin call hands back: the users table it leaves, its
\* error or token, and whether it unlocked the account.
Result(users, err, token, unlocked) ==
  [users |-> users, err |-> err, token |-> token, unlocked |-> unlocked]

\* Service.ValidateLogin from the point where the account is not locked,
\* or was unlocked: a wrong password is counted, and locks the account if
\* the *User held shows five failures or more; a right one resets the
\* count and gives a token.
CheckPassword(user, users, u, password, unlocked) ==
  IF ~CheckPasswordHash(password, user.PasswordHash)
    THEN LET counted == UpdateLoginAttempts(users, u, TRUE)
         IN Result(IF Held(user, counted, u).FailedLoginCount >= 5
                     THEN LockAccount(counted, u, LockDuration)
                     ELSE counted,
                   "invalid password", <<>>, unlocked)
    ELSE Result(UpdateLoginAttempts(users, u, FALSE), "", GenerateToken(u),
                unlocked)

\* Service.ValidateLogin for a user GetUserByUsername found: a locked
\* account is unlocked if its lock ran out and rejected otherwise.
LoginOf(user, u, password) ==
  IF user.Locked
    THEN IF LockExpired(user)
           THEN LET unlocked == UnlockAccount(accounts.users, u)
                IN CheckPassword(Held(user, unlocked, u), unlocked, u, password, TRUE)
           ELSE Result(accounts.users, "account is locked", <<>>, FALSE)
    ELSE CheckPassword(user, accounts.users, u, password, FALSE)

\* Service.ValidateLogin(username, password).
ValidateLogin(u, password) ==
  /\ IF accounts.users[u] = NoUser
       THEN /\ login' = [login EXCEPT !.op = "ValidateLogin", !.username = u,
                                      !.err = "user not found",
                                      !.token = <<>>, !.unlocked = FALSE]
            /\ UNCHANGED accounts
       ELSE LET r == LoginOf(accounts.users[u], u, password)
            IN /\ accounts' = [accounts EXCEPT !.users = r.users]
               /\ login' = [login EXCEPT
                    !.op = "ValidateLogin", !.username = u, !.err = r.err,
                    !.token = r.token, !.unlocked = r.unlocked,
                    !.streak[u] = IF r.err = "invalid password"
                                    THEN IF @ < MaxStreak THEN @ + 1 ELSE @
                                    ELSE 0]
  /\ UNCHANGED <<pipeline, env, k8s, static, vcheck, nodejs>>

\* The service is built with either repository.
AuthInit ==
  /\ NewPipeline
  /\ cluster = EmptyCluster
  /\ accounts \in {NoAccounts(r) : r \in Repositories}
  /\ nodejs = NewNodeJSBuilder

\* Users register and log in while time passes.
AuthNext ==
  \/ \E u \in Usernames, password \in Passwords : RegisterUser(u, password)
  \/ \E u \in Usernames, password \in Passwords : ValidateLogin(u, password)
  \/ Tick

AuthSpec == AuthInit /\ [][AuthNext]_vars

(***************************************************************************)
(* The container-based builder: NodeJSBuilder.Build tags and submits the   *)
(* image, reads the progress messages of the engine and extracts the       *)
(* artifact through a throwaway container.                                 *)
(***************************************************************************)

MaxMessages == 2

\* fmt.Sprintf("chef-%s:%s", project, ref)
Sprintf(project, ref) ==
  <<"c", "h", "e", "f", "-">> \o project \o <<":">> \o ref

\* ImageTag as it would be if the tag were always made of the commit hash.
ImageTag_CommitOnly(b) == Sprintf(b.ProjectID, b.CommitHash)

\* The tag NodeJSBuilder.Build and createArtifactFromContainer each compute.
ImageTag(b) ==
  IF b.CommitHash # <<>> THEN Sprintf(b.ProjectID, b.CommitHash)
  ELSE Sprintf(b.ProjectID, b.ID)

\* NodeJSBuilder.getImageTag
getImageTag(imageID) ==
  IF Len(imageID) > 5 /\ SubSeq(imageID, 1, 5) = <<"c", "h", "e", "f", "-">>
  THEN imageID
  ELSE <<"c", "h", "e", "f", "-">> \o imageID

\* The progress messages the engine streams: build output, a status line,
\* a reported error, and bytes that do not decode.
Messages ==
  {[valid |-> TRUE, Stream |-> "Step 1/8", Error |-> "", Status |-> ""],
   [valid |-> TRUE, Stream |-> "", Error |-> "", Status |-> "Pulling"],
   [valid |-> TRUE, Stream |-> "", Error |-> "npm ERR!", Status |-> ""],
   [valid |-> FALSE, Stream |-> "", Error |-> "", Status |-> ""]}
Bodies == UNION {[1..n -> Messages] : n \in 0..MaxMessages}

\* processBuildOutput as it would be if it only logged what it reads.
RECURSIVE processBuildOutput_LogOnly(_)
processBuildOutput_LogOnly(reader) ==
  IF reader = <<>> THEN ""
  ELSE IF ~Head(reader).valid THEN "decode"
  ELSE processBuildOutput_LogOnly(Tail(reader))

\* NodeJSBuilder.processBuildOutput: the error it returns ("": nil).
RECURSIVE processBuildOutput(_)
processBuildOutput(reader) ==
  IF reader = <<>> THEN ""
  ELSE IF ~Head(reader).valid THEN "decode"
  ELSE IF Head(reader).Error # "" THEN "docker build error"
  ELSE processBuildOutput(Tail(reader))

\* The builder sends a request to the container engine.
Request(op, arg) ==
  nodejs.requests \o <<[op |-> op, arg |-> arg]>>

\* NodeJSBuilder.Build returns (nil, err).
BuildFails(err, requests) ==
  nodejs' = [nodejs EXCEPT !.pc = "returned", !.err = err,
                           !.requests = requests]

\* NodeJSBuilder.Build up to the build context: the build directory is
\* prepared, the Dockerfile written, the image tag formatted and the
\* directory archived.
NodeJSBuild(project, id, commit) ==
  /\ nodejs.pc \in {"idle", "returned"}
  /\ LET b == [ProjectID |-> project, ID |-> id, CommitHash |-> commit] IN
     \E r \in {"ok", "prepare", "dockerfile", "context"} :
       nodejs' = [NewNodeJSBuilder EXCEPT
         !.build = b,
         !.imageTag = IF r \in {"ok", "context"} THEN ImageTag(b) ELSE <<>>,
         !.pc = IF r = "ok" THEN "imageBuild" ELSE "returned",
         !.err = CASE r = "ok" -> ""
                   [] r = "prepare" -> "failed to prepare build directory"
                   [] r = "dockerfile" -> "failed to create dockerfile"
                   [] r = "context" -> "failed to create build context"]
  /\ UNCHANGED <<pipeline, env, k8s, static, vcheck, auth>>

\* b.dockerCli.ImageBuild(ctx, buildContext, buildOpts)
BuildImageBuild ==
  /\ nodejs.pc = "imageBuild"
  /\ LET sent == Request("ImageBuild", nodejs.imageTag) IN
     \/ BuildFails("docker build failed", sent)
     \/ \E body \in Bodies :
          nodejs' = [nodejs EXCEPT !.pc = "output", !.body = body,
                                   !.requests = sent]
  /\ UNCHANGED <<pipeline, env, k8s, static, vcheck, auth>>

\* b.processBuildOutput(resp.Body)
BuildProcessOutput ==
  /\ nodejs.pc = "output"
  /\ LET err == processBuildOutput(nodejs.body) IN
       IF err # "" THEN BuildFails(err, nodejs.requests)
       ELSE nodejs' = [nodejs EXCEPT !.pc = "inspect"]
  /\ UNCHANGED <<pipeline, env, k8s, static, vcheck, auth>>

\* createArtifactFromContainer: the tag is formatted again and the image
\* looked up.
ArtifactInspect ==
  /\ nodejs.pc = "inspect"
  /\ LET sent == Request("ImageInspect", ImageTag(nodejs.build)) IN
     \/ BuildFails("failed to create artifact", sent)
     \/ nodejs' = [nodejs EXCEPT !.pc = "createContainer", !.requests = sent]
  /\ UNCHANGED <<pipeline, env, k8s, static, vcheck, auth>>

\* createContainer, which passes the image name through getImageTag; once
\* it has returned the container the removal of the container is deferred.
ArtifactCreateContainer ==
  /\ nodejs.pc = "createContainer"
  /\ LET image == getImageTag(ImageTag(nodejs.build))
         sent == Request("ContainerCreate", image) IN
     \/ BuildFails("failed to create artifact", sent)
     \/ nodejs' = [nodejs EXCEPT !.pc = "mkdir", !.deferred = TRUE,
                                 !.requests = sent]
  /\ UNCHANGED <<pipeline, env, k8s, static, vcheck, auth>>

\* createArtifactFromContainer leaves with the error cause ("": nil); its
\* deferred calls are still to run.
ArtifactLeave(cause, requests, files) ==
  nodejs' = [nodejs EXCEPT !.pc = "extracted", !.cause = cause,
                           !.requests = requests, !.files = files]

\* os.MkdirAll(artifactDir, 0755)
ArtifactMkdirAll ==
  /\ nodejs.pc = "mkdir"
  /\ \/ ArtifactLeave("mkdir", nodejs.requests, nodejs.files)
     \/ nodejs' = [nodejs EXCEPT !.pc = "copy"]
  /\ UNCHANGED <<pipeline, env, k8s, static, vcheck, auth>>

\* b.dockerCli.CopyFromContainer(ctx, containerID, "/usr/share/nginx/html")
ArtifactCopyFromContainer ==
  /\ nodejs.pc = "copy"
  /\ LET sent == Request("CopyFromContainer", ContainerID) IN
     \/ ArtifactLeave("copy", sent, nodejs.files)
     \/ nodejs' = [nodejs EXCEPT !.pc = "create", !.requests = sent]
  /\ UNCHANGED <<pipeline, env, k8s, static, vcheck, auth>>

\* os.Create(artifactPath) and io.Copy(outFile, reader)
ArtifactWrite ==
  /\ nodejs.pc = "create"
  /\ LET file == <<"artifacts", nodejs.build.ID>> IN
     \/ ArtifactLeave("create", nodejs.requests, nodejs.files)
     \/ \E cause \in {"", "write"} :
          ArtifactLeave(cause, nodejs.requests, nodejs.files \cup {file})
  /\ UNCHANGED <<pipeline, env, k8s, static, vcheck, auth>>

\* ArtifactReturn as it would be if the container were removed only after
\* an extraction without error.
ArtifactReturn_RemoveOnSuccess ==
  /\ nodejs.pc = "extracted"
  /\ LET sent == IF nodejs.deferred /\ nodejs.cause = ""
                 THEN Request("ContainerRemove", ContainerID)
                 ELSE nodejs.requests IN
       IF nodejs.cause # ""
       THEN BuildFails("failed to create artifact", sent)
       ELSE nodejs' = [nodejs EXCEPT
              !.pc = "returned", !.requests = sent,
              !.result = [Success |-> TRUE,
                          ArtifactPath |-> <<"artifacts", nodejs.build.ID>>,
                          ImageID |-> nodejs.imageTag]]
  /\ UNCHANGED <<pipeline, env, k8s, static, vcheck, auth>>

\* createArtifactFromContainer returns: the deferred calls run (the file and
\* the reader are closed, b.dockerCli.ContainerRemove is called), then
\* NodeJSBuilder.Build returns the error or the BuildResult.
ArtifactReturn ==
  /\ nodejs.pc = "extracted"
  /\ LET sent == IF nodejs.deferred
                 THEN Request("ContainerRemove", ContainerID)
                 ELSE nodejs.requests IN
       IF nodejs.cause # ""
       THEN BuildFails("failed to create artifact", sent)
       ELSE nodejs' = [nodejs EXCEPT
              !.pc = "returned", !.requests = sent,
              !.result = [Success |-> TRUE,
                          ArtifactPath |-> <<"artifacts", nodejs.build.ID>>,
                          ImageID |-> nodejs.imageTag]]
  /\ UNCHANGED <<pipeline, env, k8s, static, vcheck, auth>>

\* Builds are handed to the builder one after the other.
BuilderNext ==
  \/ \E project \in ProjectIDs, id \in BuildNames, commit \in CommitHashes :
       NodeJSBuild(project, id, commit)
  \/ BuildImageBuild
  \/ BuildProcessOutput
  \/ ArtifactInspect
  \/ ArtifactCreateContainer
  \/ ArtifactMkdirAll
  \/ ArtifactCopyFromContainer
  \/ ArtifactWrite
  \/ ArtifactReturn

BuilderSpec == Init /\ [][BuilderNext]_vars

(***************************************************************************)
(* Properties of the pipeline.                                             *)
(***************************************************************************)

\* StartBuild accepted record b (it returned nil and launched the goroutine).
Accepted(b) == results[b].ValidateBuildConfig = "ok"

\* The goroutine of b has ended and no CancelBuild is still writing to b.
Finished(b) == task[b].pc = "done" /\ cancel.build # b

\* No CancelBuild has passed its checks for b.
NotCancelled(b) == results[b].CancelBuild = "none" /\ cancel.build # b

\* An unset status reads as pending.
StatusOf(b) == IF build[b].Status = "" THEN BuildStatusPending ELSE build[b].Status

StatusTransitions ==
  {<<BuildStatusPending, BuildStatusBuilding>>,
   <<BuildStatusBuilding, BuildStatusSuccess>>,
   <<BuildStatusBuilding, BuildStatusFailed>>,
   <<BuildStatusBuilding, BuildStatusCancelled>>}

\* C1: every change of the status of a submitted build is pending->building
\* or building->{success, failed, cancelled}; a terminal status never changes.
C1_StatusTransitions ==
  [][\A b \in Builds :
       (task[b].pc # "new" /\ StatusOf(b)' # StatusOf(b))
         => <<StatusOf(b), StatusOf(b)'>> \in StatusTransitions]_vars

\* C2: once CancelBuild has returned nil for a build, the build is cancelled
\* with completeTime set, in every later state.
C2_CancelledStays ==
  \A b \in Builds :
    results[b].CancelBuild = "ok"
      => /\ build[b].Status = BuildStatusCancelled
         /\ build[b].CompleteTime # "nil"

\* The id a CancelBuild call made in this step was given.
CancelBuildID == IF cancel' # NoCancel THEN cancel'.id ELSE ret'.id

\* C3: a CancelBuild on an unknown id, or on a build whose status is not
\* building, returns an error in the same step, does not invoke the
\* cancellation handle and changes no field of any build.
C3_CancelRejected ==
  [][(/\ ncancel' # ncancel
      /\ \/ builds[CancelBuildID] = NoBuild
         \/ build[builds[CancelBuildID]].Status # BuildStatusBuilding)
       => /\ ret'.op = "CancelBuild" /\ ret'.id = CancelBuildID /\ ret'.err # ""
          /\ cancel' = NoCancel
          /\ UNCHANGED <<builds, build, ctxDone, calls, task>>]_vars

\* A CancelBuild on a build that has ended (success, failed or cancelled)
\* has been refused.
C3_Witness ==
  /\ ret.op = "CancelBuild" /\ ret.err = "cannot cancel build"
  /\ build[ret.build].Status \in TerminalStatuses
  /\ task[ret.build].pc = "done"

\* The final status of a build that ended in an error: failed, or cancelled
\* when a CancelBuild on it has returned nil.
EndsFailedOrCancelled(b) ==
  \/ build[b].Status = BuildStatusFailed
  \/ build[b].Status = BuildStatusCancelled /\ results[b].CancelBuild = "ok"

\* Rollback is invoked once, after a Deploy that returned an error, and
\* never otherwise.
RollbackOnceAfterDeployError(b) ==
  /\ calls[b].Rollback <= 1
  /\ calls[b].Rollback = 1 <=>
       (results[b].Deploy = "err" /\ task[b].pc # "rollback")

BuildErrorStops(b) ==
  /\ Accepted(b)
  /\ calls[b].ValidateArtifact = 0
  /\ calls[b].Deploy = 0
  /\ calls[b].Rollback = 0

C7_InvalidNotRegistered ==
  /\ \A b \in Builds :
       results[b].ValidateBuildConfig = "err"
         => /\ task[b].pc = "rejected"
            /\ \A id \in BuildIDs : builds[id] # b
            /\ calls[b] = [NoCalls EXCEPT !.ValidateBuildConfig = 1]
            /\ build[b].CancelFunc = "nil"
  /\ (ret.op = "StartBuild" /\ ret.err = "")
       => results[ret.build].ValidateBuildConfig = "ok"
  /\ (ret.op = "StartBuild" /\ ret.err # "")
       => results[ret.build].ValidateBuildConfig = "err"
  /\ (ret.op = "GetBuild" /\ ret.err = "")
       => results[ret.build].ValidateBuildConfig = "ok"

\* A rejected build whose id GetBuild has just reported as not found, while
\* another build runs.
C7_Witness ==
  \E b \in Builds :
    /\ results[b].ValidateBuildConfig = "err"
    /\ ret = Call("GetBuild", build[b].ID, NoBuild, "build not found")
    /\ \E o \in Builds : task[o].pc = "inBuild"

\* C8: when validation succeeds StartBuild returns nil with the build in
\* the registry and no builder or deployer call made, and from registration
\* until its goroutine starts the registered build's status is pending.
C8_RegisteredPending ==
  /\ (ret.op = "StartBuild" /\ ret.err = "") => builds[ret.id] = ret.build
  /\ \A b \in Builds :
       task[b].pc = "spawned"
         => /\ build[b].Status = BuildStatusPending
            /\ calls[b].Build = 0
            /\ calls[b].Deploy = 0

\* The records StartBuild has accepted under id.
AcceptedAs(id) == {b \in Builds : Accepted(b) /\ build[b].ID = id}

\* C9: GetBuild returns not-found exactly for the ids no successful
\* StartBuild has registered, and a record registered under the id otherwise.
C9_GetBuild ==
  ret.op = "GetBuild"
    => /\ ret.err # "" <=> AcceptedAs(ret.id) = {}
       /\ ret.err # "" => ret.build = NoBuild
       /\ ret.err = "" => ret.build \in AcceptedAs(ret.id)

\* GetBuild has returned a registered build whose goroutine has ended.
C9_Witness ==
  /\ ret.op = "GetBuild" /\ ret.err = ""
  /\ task[ret.build].pc = "done"
  /\ \E id \in BuildIDs : builds[id] = NoBuild

\* The state of a successful build.
Succeeded(b) ==
  /\ build[b].Status = BuildStatusSuccess
  /\ build[b].ArtifactPath # ""
  /\ build[b].ImageID = BuildResult.ImageID
  /\ build[b].CompleteTime # "nil"

\* C10: an accepted build that is not cancelled and for which the builder,
\* artifact validation and the deployer succeed eventually is successful,
\* with artifactPath, imageID and completeTime set, and stays so.
C10_SuccessReached ==
  \A b \in Builds :
    /\ (task[b].pc = "spawned")
         ~> \/ task[b].err # ""
            \/ results[b].Deploy = "err"
            \/ ~NotCancelled(b)
            \/ Succeeded(b) /\ task[b].pc = "done"
    /\ [](results[b].Deploy = "ok" /\ NotCancelled(b) => Succeeded(b))

\* A build has been deployed without being cancelled and its goroutine
\* has ended.
C10_Witness ==
  \E b \in Builds :
    /\ results[b].Deploy = "ok" /\ NotCancelled(b)
    /\ task[b].pc = "done"
    /\ ncancel > 0

\* C11: a build's status is success only when its Deploy call has returned
\* without error: never while Deploy has not run, is in flight or has failed.
C11_SuccessAfterDeploy ==
  \A b \in Builds :
    build[b].Status = BuildStatusSuccess => results[b].Deploy = "ok"

\* StartBuild has registered record b and it is still the record of its id.
Registered(b) == Accepted(b) /\ builds[build[b].ID] = b

\* A terminal update of b is half-way: its status is written and the writes
\* that belong to it (lines 575-579, 495-496, 612-614) are not all made.
Updating(b) ==
  \/ cancel.build = b
  \/ task[b].pc \in {"setArtifact", "setCompleteTime", "setErrorMessage"}

\* C12: for every registered build, completeTime is set exactly when the
\* status is success, failed or cancelled (looked at between updates); in
\* particular a build that ended failed has a completeTime.
C12_CompleteTimeIffTerminal ==
  \A b \in Builds :
    (Registered(b) /\ ~Updating(b))
      => (build[b].CompleteTime # "nil" <=> build[b].Status \in TerminalStatuses)

\* C13: when CancelBuild returns nil for a build whose Builder.Build or
\* Deployer.Deploy call is in flight, the context that call was given is
\* cancelled.
C13_CancelReachesCall ==
  [][\A b \in Builds :
       (cancel.build = b /\ cancel.pc = "setCompleteTime" /\ cancel' = NoCancel)
         => /\ task[b].pc = "inBuild" => Done(b, BuilderCtx)'
            /\ task[b].pc = "inDeploy" => Done(b, DeployerCtx)']_vars

\* C14: a build whose builder does not return until the context it was
\* given is done still reaches a terminal status, by the default timeout,
\* without any CancelBuild.
C14_TimeoutBoundsBuild ==
  \A b \in Builds :
    (task[b].pc = "spawned") ~> (build[b].Status \in TerminalStatuses)

\* The fields of record b that the execution task and CancelBuild write.
SharedFields(b) ==
  <<build[b].Status, build[b].ErrorMessage, build[b].ArtifactPath,
    build[b].CompleteTime>>

\* C15: writes to a registered build's status, errorMessage, artifactPath
\* and completeTime are made under the registry's write lock: while a
\* CancelBuild holds the lock for a build, from its status check to its
\* return, no step but its own changes these fields of that build.
C15_WritesUnderLock ==
  [][\A b \in Builds :
       (cancel.build = b /\ cancel' = cancel) => SharedFields(b)' = SharedFields(b)]_vars

UnsupportedStops(b) ==
  /\ ~task[b].builder
  /\ calls[b].Build = 0
  /\ calls[b].Deploy = 0
  /\ calls[b].BuilderCleanup = 0
  /\ task[b].pc \notin {"build", "inBuild"}

C18_ArtifactRetained ==
  \A b \in Builds :
    (task[b].pc = "done" /\ build[b].ArtifactPath # "")
      => ArtifactFile(build[b].ID) \in disk

\* The goroutine of b has started executeBuild.
Executing(b) == task[b].pc \notin {"new", "rejected", "spawned"}

\* C19: for every build the pipeline executes the metrics collector holds a
\* record under the build id, with status running from the start of the
\* execution and, once the build has ended, with an end time, the duration
\* end minus start and the build's final status.
C19_MetricsRecorded ==
  \A b \in Builds :
    Executing(b)
      => /\ metrics[build[b].ID] # NoMetrics
         /\ IF Finished(b) /\ build[b].Status \in TerminalStatuses
              THEN /\ metrics[build[b].ID].Status = build[b].Status
                   /\ metrics[build[b].ID].BuildDuration =
                        metrics[build[b].ID].EndTime - metrics[build[b].ID].StartTime
              ELSE metrics[build[b].ID].Status = "running"

\* C20: when a Deploy call that no other Deploy for the same project
\* overlapped returns nil, the project has its workload, its endpoint and
\* its ingress (one of each: the cluster keeps one resource per name) and
\* the workload runs the image of this Deploy, whether the resources were
\* created or were there already.
C20_DeployCreatesOrUpdates ==
  [][\A c \in Callers :
       (/\ InDeploy(c) /\ ~deploys[c].overlapped
        /\ deploys'[c].pc = "done" /\ deploys'[c].err = "")
         => /\ cluster'.deployments[deploys[c].project] =
                 Resource("deployments", deploys[c].project, deploys[c].image)
            /\ cluster'.services[deploys[c].project] # NoResource
            /\ cluster'.ingresses[deploys[c].project] # NoResource]_vars

\* A Deploy that found all three resources of its project in place has
\* returned nil, and the workload runs its image, while the other caller
\* deployed another image.
C20_Witness ==
  \E c \in Callers :
    /\ deploys[c].pc = "done" /\ deploys[c].err = ""
    /\ ~deploys[c].overlapped
    /\ deploys[c].updated = {"deployments", "services", "ingresses"}
    /\ cluster.deployments[deploys[c].project].image = deploys[c].image
    /\ \E o \in Callers \ {c} :
         /\ deploys[o].project = deploys[c].project
         /\ deploys[o].pc = "done" /\ deploys[o].err = ""
         /\ deploys[o].image # deploys[c].image

\* The items of a list, and the revision of a history with exactly one
\* revision above it.
Items(listed) == {listed[i] : i \in DOMAIN listed}
SecondNewest(history) ==
  CHOOSE rs \in history :
    Cardinality({q \in history : Atoi(q.revision) > Atoi(rs.revision)}) = 1

\* C21: when the history Rollback was given has at least two revisions and
\* its update goes through, the live workload runs the image of the revision
\* with the second-highest revision number, whatever order the history was
\* listed in, it carries the rollback change cause, and Rollback returns nil.
C21_RollbackToSecondNewest ==
  [][\A c \in Callers :
       (/\ deploys[c].pc = "apply"
        /\ deploys'[c].pc = "done" /\ deploys'[c].err = "")
         => /\ Len(deploys[c].listed) >= 2
            /\ cluster'.deployments[deploys[c].project].image =
                 SecondNewest(Items(deploys[c].listed)).image
            /\ cluster'.deployments[deploys[c].project].cause = ChangeCause
            /\ cluster'.deployments[deploys[c].project].name = deploys[c].project]_vars

\* A Rollback has returned nil after the history with the revisions 8, 9
\* and 10 was listed with neither the newest first nor the second newest
\* second, and the workload runs the image of revision 9 with the change
\* cause.
C21_Witness ==
  \E c \in Callers :
    /\ deploys[c].op = "Rollback" /\ deploys[c].pc = "done" /\ deploys[c].err = ""
    /\ ~deploys[c].overlapped
    /\ Len(deploys[c].listed) = 3
    /\ Atoi(deploys[c].listed[1].revision) # 10
    /\ Atoi(deploys[c].listed[2].revision) # 9
    /\ Atoi(SecondNewest(Items(deploys[c].listed)).revision) = 9
    /\ cluster.deployments[deploys[c].project] =
         [name |-> deploys[c].project, image |-> "img2", cause |-> ChangeCause]

\* C22: a Rollback that finds fewer than two revisions in the history
\* returns an error at once: it has issued no update and the cluster is as
\* it was.
C22_NoPreviousRevision ==
  [][\A c \in Callers :
       (/\ deploys[c].pc = "list" /\ deploys'[c].pc # "list"
        /\ Cardinality(cluster.replicasets[deploys[c].project]) < 2)
         => /\ deploys'[c].pc = "done" /\ deploys'[c].err # ""
            /\ deploys'[c].updated = {}
            /\ cluster' = cluster]_vars

\* A Rollback of a first deployment, whose history has one revision, has
\* returned "no previous revision available for rollback" without an
\* update, and the workload still runs the image that was deployed.
C22_Witness ==
  \E c \in Callers :
    /\ deploys[c].op = "Rollback" /\ deploys[c].pc = "done"
    /\ deploys[c].err = "no previous revision available for rollback"
    /\ Len(deploys[c].listed) = 1
    /\ deploys[c].updated = {}
    /\ ~deploys[c].overlapped
    /\ cluster.deployments[deploys[c].project] =
         Resource("deployments", deploys[c].project, deploys[c].image)

\* C29: when the Rollback that follows a failed Deploy returns, and no other
\* call for the project overlapped the two, a workload that existed before
\* the Deploy runs the image it ran when the Deploy started.
C29_RollbackRestoresLive ==
  [][\A c \in Callers :
       (/\ InRollback(c) /\ deploys'[c].pc = "done"
        /\ ~deploys[c].overlapped
        /\ deploys[c].before # NoResource)
         => cluster'.deployments[deploys[c].project].image =
              deploys[c].before.image]_vars

\* C23: when a deployment exists for the project and Deploy is followed by
\* a Rollback for the same build that returns nil, the target directory of
\* the project holds exactly the files, with their contents, that it held
\* before Deploy.
C23_StaticRollbackRestores ==
  [][(/\ sdep.op = "Deploy" /\ sdep.before.exists
      /\ sdep'.op = "Rollback" /\ sdep'.err = "")
       => www'.targets[sdep.project] = sdep.before]_vars

\* The build of a ValidateBuildConfig call has a manifest that parses; the
\* manifest declares a node version.
ManifestParses(v) ==
  "workDir" \in DOMAIN v.BuilderConfig /\ v.file.kind = "manifest"
DeclaresNode(v) == v.file.node \notin {NoEngine, ""}

\* What the specification asks of a build for it to be accepted.
Acceptable(v) ==
  /\ ManifestParses(v)
  /\ DeclaresNode(v) => \E i \in DOMAIN v.allowed : v.allowed[i] = v.file.node
  /\ v.BuildCommand # ""
  /\ v.BuildCommand \in v.file.scripts

\* C24: ValidateBuildConfig returns nil exactly for the builds whose
\* manifest parses, declares no node version or an allowed one, and has the
\* non-empty build command among its scripts; for every other build it
\* returns an error.
C24_AcceptsExactly ==
  vcheck # NoCheck =>
    IF Acceptable(vcheck) THEN vcheck.err = "" ELSE vcheck.err \notin {"", "panic"}

\* C24 for the builds whose BuilderConfig has a workDir.
C24_AcceptsExactlyWithWorkDir ==
  (vcheck # NoCheck /\ "workDir" \in DOMAIN vcheck.BuilderConfig) =>
    IF Acceptable(vcheck) THEN vcheck.err = "" ELSE vcheck.err \notin {"", "panic"}

\* The step is a ValidateLogin call for user u.
LoginStep(u) ==
  login' # login /\ login'.op = "ValidateLogin" /\ login'.username = u

\* C25: when the last five ValidateLogin calls for a user were rejected for
\* a wrong password, the next ValidateLogin for the user, whatever its
\* password, fails with "account is locked" (unless the lock has run out
\* by then).
C25_LockedAfterFive ==
  [][\A u \in Usernames :
       (/\ login.streak[u] = 5
        /\ LoginStep(u)
        /\ ~(accounts.users[u].Locked /\ LockExpired(accounts.users[u])))
         => login'.err = "account is locked"]_vars

\* C25 with the mockRepository of the tests.
C25_LockedAfterFiveMock ==
  [][\A u \in Usernames :
       (/\ accounts.repository = "mock"
        /\ login.streak[u] = 5
        /\ LoginStep(u)
        /\ ~(accounts.users[u].Locked /\ LockExpired(accounts.users[u])))
         => login'.err = "account is locked"]_vars

C27_StepsSequential ==
  \A b \in Builds :
    /\ calls[b].Build <= 1 /\ calls[b].ValidateArtifact <= 1
    /\ calls[b].Deploy <= 1 /\ calls[b].Rollback <= 1
    /\ calls[b].ValidateArtifact > 0 => results[b].Build = "ok"
    /\ calls[b].Deploy > 0 => results[b].ValidateArtifact = "ok"
    /\ calls[b].Rollback > 0 => results[b].Deploy = "err"

\* An execution has gone through all four steps, once each: Build and
\* ValidateArtifact returned nil, Deploy an error, and Rollback returned.
C27_Witness ==
  \E b \in Builds :
    /\ calls[b].Build = 1 /\ calls[b].ValidateArtifact = 1
    /\ calls[b].Deploy = 1 /\ calls[b].Rollback = 1
    /\ results[b].Build = "ok" /\ results[b].ValidateArtifact = "ok"
    /\ results[b].Deploy = "err" /\ results[b].Rollback # "none"
    /\ task[b].pc = "done"

\* C28: a CancelBuild call that returned nil for a build has invoked the
\* cancellation handle of the build.
C28_CancelInvokesHandle ==
  \A b \in Builds :
    results[b].CancelBuild = "ok" => calls[b].CancelFunc > 0

\* executeBuild has returned and its deferred calls have run.
Returning(b) == task[b].pc \in {"setFailed", "setErrorMessage", "done"}

\* C30: Builder.Cleanup and the cleanup of the build context are invoked
\* at most once each, only when executeBuild returns, after every step it
\* called has returned; by then Builder.Cleanup has run exactly once if a
\* builder was created and the context cleanup exactly once if the build
\* context was created, whatever the outcome of the steps.
C30_CleanupOnce ==
  \A b \in Builds :
    /\ calls[b].BuilderCleanup <= 1 /\ calls[b].ContextCleanup <= 1
    /\ (calls[b].BuilderCleanup > 0 \/ calls[b].ContextCleanup > 0)
         => /\ Returning(b)
            /\ \A fn \in {"Build", "ValidateArtifact", "Deploy", "Rollback"} :
                 calls[b][fn] > 0 => results[b][fn] # "none"
    /\ Returning(b)
         => /\ calls[b].BuilderCleanup = (IF task[b].builder THEN 1 ELSE 0)
            /\ calls[b].ContextCleanup = (IF task[b].buildContext THEN 1 ELSE 0)

\* An execution whose Deploy failed has ended with both cleanups run once,
\* and another has ended with the context cleaned up and no builder made.
C30_Witness ==
  /\ \E b \in Builds :
       /\ task[b].pc = "done" /\ results[b].Deploy = "err"
       /\ calls[b].BuilderCleanup = 1 /\ calls[b].ContextCleanup = 1
  /\ \E b \in Builds :
       /\ task[b].pc = "done" /\ task[b].buildContext /\ ~task[b].builder
       /\ calls[b].BuilderCleanup = 0 /\ calls[b].ContextCleanup = 1

\* No other submitted build carries the id of b.
SoleID(b) == \A o \in Builds \ {b} : task[o].pc = "new" \/ build[o].ID # build[b].ID

\* C31: once the execution of a build has returned, whatever its outcome,
\* the build directory and the cache directory of the build no longer exist
\* and its artifact directory still exists.
C31_DirsRemoved ==
  \A b \in Builds :
    (Returning(b) /\ task[b].buildContext /\ SoleID(b))
      => /\ BuildDir(build[b].ID) \notin disk
         /\ CacheDir(build[b].ID) \notin disk
         /\ ArtifactDir(build[b].ID) \in disk

\* The part of C31 the code keeps: the build directory is gone and the
\* artifact directory is still there.
C31_BuildDirRemoved ==
  \A b \in Builds :
    (Returning(b) /\ task[b].buildContext /\ SoleID(b))
      => /\ BuildDir(build[b].ID) \notin disk
         /\ ArtifactDir(build[b].ID) \in disk

(***************************************************************************)
(* Properties of the container-based builder.                              *)
(***************************************************************************)

\* The arguments of the requests of one kind the builder has sent to the
\* engine in this call, and how many it has sent.
Sent(op) ==
  {i \in DOMAIN nodejs.requests : nodejs.requests[i].op = op}
Tagged(op) == {nodejs.requests[i].arg : i \in Sent(op)}

\* The commit hash of the build, or its id when it has none.
Ref(b) == IF b.CommitHash # <<>> THEN b.CommitHash ELSE b.ID

\* A progress message of the response body reports an error.
Reported == \E i \in DOMAIN nodejs.body : nodejs.body[i].Error # ""

C34_ContainerRemovedOnce ==
  /\ Cardinality(Sent("ContainerRemove")) =
       (IF nodejs.deferred /\ nodejs.pc = "returned" THEN 1 ELSE 0)
  /\ Tagged("ContainerRemove") \subseteq {ContainerID}
  /\ nodejs.pc \in {"mkdir", "copy", "create", "extracted"} => nodejs.deferred

\* An extraction that failed at the copy has returned with the removal of
\* its container requested.
C34_Witness ==
  /\ nodejs.pc = "returned" /\ nodejs.cause = "copy"
  /\ nodejs.requests[Len(nodejs.requests)].op = "ContainerRemove"

\* C35: ValidateBuildConfig ends by returning nil or an error for every
\* build, also for a build whose BuilderConfig holds a sourceDir and no
\* workDir; it never aborts the StartBuild call that made it.
C35_ReturnsNormally ==
  vcheck # NoCheck => vcheck.err # "panic"

\* The part of C35 the code keeps: a ValidateBuildConfig call for a build
\* whose BuilderConfig has a workDir returns nil or an error.
C35_ReturnsNormallyWithWorkDir ==
  (vcheck # NoCheck /\ "workDir" \in DOMAIN vcheck.BuilderConfig)
    => vcheck.err # "panic"

\* The step belongs to record b: it is a step of StartBuild or of the
\* execution of b, or a step of a CancelBuild call that found b.
StepOf(b) == task'[b] # task[b] \/ (cancel.build = b /\ cancel' # cancel)

\* C36: a step of one build (its execution failing, completing, or a
\* CancelBuild for it) changes no field of another registered build with a
\* different id, nor the registry entry of that build.
C36_FailureScoped ==
  [][\A b \in Builds : \A o \in Builds \ {b} :
       (StepOf(b) /\ Registered(o) /\ build[o].ID # build'[b].ID)
         => /\ build'[o] = build[o]
            /\ builds'[build[o].ID] = o]_vars

\* One build has ended failed and another has been cancelled while a build
\* with a different id is still registered as it was: building, without error
\* message and completion time.
C36_Witness ==
  \E b \in Builds : \E o \in Builds \ {b} :
    /\ build[b].ID # build[o].ID
    /\ task[b].pc = "done" /\ build[b].Status = BuildStatusFailed
    /\ Registered(o) /\ Executing(o) /\ task[o].pc # "done"
    /\ build[o].Status = BuildStatusBuilding
    /\ build[o].ErrorMessage = "" /\ build[o].CompleteTime = "nil"

\* C37: at most one execution is ever launched for a build id: no two
\* submitted builds were accepted, and handed to an execution, under one id.
C37_OneExecutionPerID ==
  \A id \in BuildIDs : Cardinality(AcceptedAs(id)) <= 1

\* The other half of C37: a StartBuild whose id is already registered does
\* not replace the record the registry holds under the id.
C37_RecordNotReplaced ==
  [][\A id \in BuildIDs :
       builds[id] # NoBuild => builds'[id] = builds[id]]_vars

\* CancelBuild has returned nil for build b and the Builder.Build call of b
\* has not returned (or was not made yet).
CancelledBeforeBuilt(b) ==
  results[b].CancelBuild = "ok" /\ results[b].Build = "none"

\* C38: once CancelBuild has succeeded for a build whose Builder.Build call
\* has not returned, Deployer.Deploy is never invoked for that build.
C38_NoDeployAfterCancel ==
  \A b \in Builds : [](CancelledBeforeBuilt(b) => [](calls[b].Deploy = 0))

\* The execution of b has ended and the status of b is terminal.
Ended(b) == task[b].pc = "done" /\ build[b].Status \in TerminalStatuses

\* C39: every build StartBuild accepted eventually has a terminal status
\* (success, failed or cancelled) with its execution ended, when every
\* builder, validator and deployer call it makes returns; none stays pending
\* or building forever.
C39_AcceptedTerminates ==
  \A b \in Builds : Accepted(b) ~> Ended(b)

\* The executions of two accepted builds have ended: one build was cancelled
\* while its execution ran on to the end, the other failed.
C39_Witness ==
  \E b \in Builds : \E o \in Builds \ {b} :
    /\ Accepted(b) /\ Ended(b) /\ build[b].Status = BuildStatusCancelled
    /\ results[b].Build # "none"
    /\ Accepted(o) /\ Ended(o) /\ build[o].Status = BuildStatusFailed

====
